---- MODULE Spec2Model ----
(***************************************************************************)
(* Model of the 12-team playoff pipeline of src/playoff/bracket.py:        *)
(* select_playoff_field -> seed_playoff_teams -> create_bracket_matchups,  *)
(* of apply_tiebreaker, and of the rating and backtest code of             *)
(* src/validation/backtest.py.  Each part has its own specification; the   *)
(* variables of the other parts stay at their idle values.                 *)
(* A ranking table is a sequence of rows [team, rank, conf_champ]; a       *)
(* Python Optional is a sequence of length 0 (None) or 1.                  *)
(***************************************************************************)
EXTENDS Integers, Sequences, FiniteSets, TLC

VARIABLES pc, rankings_df, n_auto_bids, n_at_large,
          playoff_teams, auto_bids, at_large_bids, displaced_team,
          champ_pulled_in, audit_log, seeded_df, first_round, all_rounds,
          error,
          tb_args, tb_result, tb_swapped,
          elo_games, elo_ratings, elo_runs, elo_last, elo_updates,
          cr_args, cr_result,
          ms_years, ms_include, ms_pos, ms_outcomes, all_results, ms_return,
          sch_args, sch_result,
          sor_args, sor_result,
          sys_games, sys_colley, sys_massey,
          sa_args, sa_result, sa_status,
          fetch_args, fetch_result

\* apply_tiebreaker: its arguments, the (winner, reason) it returned, and
\* what it returned for the same arguments with the two teams swapped
tb_vars == <<tb_args, tb_result, tb_swapped>>
\* one EloRatings instance (self.ratings), the season under test, the runs of
\* process_season on it, the last direct update_game call and their count
elo_vars == <<elo_games, elo_ratings, elo_runs, elo_last, elo_updates>>
\* calculate_composite_rankings: its inputs and the table it returned
cr_vars == <<cr_args, cr_result>>
\* run_multiple_seasons_backtest: years, include_baselines, the number of
\* years the loop has handled, how each of them ended, all_results, return
ms_vars == <<ms_years, ms_include, ms_pos, ms_outcomes, all_results, ms_return>>
\* get_opponent_records and calculate_sos for one team of a game log
sch_vars == <<sch_args, sch_result>>
\* calculate_sor: its arguments and the approximation it used
sor_vars == <<sor_args, sor_result>>
\* a game log and the systems ColleyMatrix and MasseyRatings build from it
sys_vars == <<sys_games, sys_colley, sys_massey>>
\* calculate_seeding_accuracy: the seed maps, the metrics dict, and how the
\* caller's read of the metrics ended
sa_vars == <<sa_args, sa_result, sa_status>>
\* fetch_season_games: the provider's responses and the rows returned
fetch_vars == <<fetch_args, fetch_result>>

vars == <<pc, rankings_df, n_auto_bids, n_at_large,
          playoff_teams, auto_bids, at_large_bids, displaced_team,
          champ_pulled_in, audit_log, seeded_df, first_round, all_rounds,
          error, tb_vars, elo_vars, cr_vars, ms_vars,
          sch_vars, sor_vars, sys_vars, sa_vars, fetch_vars>>

\* idle values of the parts a specification does not exercise
TiebreakIdle == tb_args = <<>> /\ tb_result = <<>> /\ tb_swapped = <<>>
EloIdle ==
    /\ elo_games = <<>> /\ elo_ratings = <<>> /\ elo_runs = <<>>
    /\ elo_last = <<>> /\ elo_updates = 0
CompositeIdle == cr_args = <<>> /\ cr_result = <<>>
SeasonsIdle ==
    /\ ms_years = <<>> /\ ms_include = FALSE /\ ms_pos = 0
    /\ ms_outcomes = <<>> /\ all_results = <<>> /\ ms_return = <<>>
ScheduleIdle == sch_args = <<>> /\ sch_result = <<>>
SorIdle == sor_args = <<>> /\ sor_result = <<>>
SystemsIdle == sys_games = <<>> /\ sys_colley = <<>> /\ sys_massey = <<>>
SeedingIdle == sa_args = <<>> /\ sa_result = <<>> /\ sa_status = "idle"
FetchIdle == fetch_args = <<>> /\ fetch_result = <<>>

----------------------------------------------------------------------------
(* Bounds of the model *)

\* largest ranking pool handed to the selector
MaxPool == 15
\* largest number of rows flagged as conference champion
MaxChamps == 5

(* Program constants *)

\* default n_auto_bids of select_playoff_field
DefaultAutoBids == 5
\* default n_at_large of select_playoff_field
DefaultAtLarge == 7
\* top_4_champs = champs_in_playoff[:4]
ByeCount == 4

DefaultTotal == DefaultAutoBids + DefaultAtLarge

----------------------------------------------------------------------------
(* Inputs *)

\* the marker strings of the conf_champ column
ChampLabel == "Yes (Conf)"
NoChampLabel == "No"

\* team names are 101, 102, ... so that a name is never mistaken for a rank
TeamName(i) == 100 + i

\* pool sizes: from the default field size up to MaxPool
PoolSizes == DefaultTotal..MaxPool

\* requested auto bids: the default, and one fewer (an 11-team field)
AutoBidChoices == {DefaultAutoBids - 1, DefaultAutoBids}

ChampSets(N) == {S \in SUBSET (1..N) : Cardinality(S) <= MaxChamps}

\* a table of N rows with ranks 1..N, the rows ranked in S flagged champion;
\* the caller hands the rows over worst rank first, so the table is unsorted
MakeTable(N, S) ==
    [i \in 1..N |->
        LET r == N + 1 - i
        IN  [team |-> TeamName(i), rank |-> r,
             conf_champ |-> IF r \in S THEN ChampLabel ELSE NoChampLabel]]

----------------------------------------------------------------------------
(* Helpers shared by the three functions *)

\* str.contains("Yes", na=False) over the labels of the model
ContainsYes(label) == label \in {ChampLabel}

\* DataFrame.head(n) / list[:n] for n >= 0
head(s, n) == SubSeq(s, 1, IF n < Len(s) THEN n ELSE Len(s))

RECURSIVE InsertByRank(_, _)
InsertByRank(row, s) ==
    IF s = <<>> THEN <<row>>
    ELSE IF row.rank < Head(s).rank THEN <<row>> \o s
    ELSE <<Head(s)>> \o InsertByRank(row, Tail(s))

\* sort_values('rank') / sorted(key=rank): ascending, stable
RECURSIVE SortByRank(_)
SortByRank(s) ==
    IF s = <<>> THEN <<>>
    ELSE InsertByRank(s[Len(s)], SortByRank(SubSeq(s, 1, Len(s) - 1)))

\* {team['team'] for team in rows}
Names(rows) == {rows[i].team : i \in 1..Len(rows)}

----------------------------------------------------------------------------
(* select_playoff_field *)

champs_df(sorted_df) == SelectSeq(sorted_df, LAMBDA r : ContainsYes(r.conf_champ))

\* n_auto_bids after the "fewer champions than requested" adjustment
EffAutoBids(champs, n_auto) ==
    IF Len(champs) < n_auto THEN Len(champs) ELSE n_auto

\* variant: the at-large count is not grown when champions are short
EffAtLarge_fixed(champs, n_auto, n_al) == n_al

\* n_at_large after the same adjustment
EffAtLarge(champs, n_auto, n_al) ==
    IF Len(champs) < n_auto THEN (n_auto + n_al) - Len(champs) ELSE n_al

\* variant: .tail() in place of .head()
auto_bid_teams_tail(champs, n_auto) ==
    SubSeq(champs, Len(champs) - EffAutoBids(champs, n_auto) + 1, Len(champs))

auto_bid_teams(champs, n_auto) == head(champs, EffAutoBids(champs, n_auto))

\* variant: every flagged champion is excluded, not only the auto bids
eligible_at_large_nochamps(sorted_df, auto_names) ==
    SelectSeq(sorted_df, LAMBDA r : ~ContainsYes(r.conf_champ))

eligible_at_large(sorted_df, auto_names) ==
    SelectSeq(sorted_df, LAMBDA r : r.team \notin auto_names)

at_large_teams(eligible, n_al) == head(eligible, n_al)

\* variant: the break leaves the loop after the first auto bid
PulledIn_firstonly(autos, total_teams) ==
    Len(autos) > 0 /\ autos[1].rank > total_teams

\* the loop over auto_bid_teams: does any auto bid rank below the field?
PulledIn(autos, total_teams) ==
    \E i \in 1..Len(autos) : autos[i].rank > total_teams

\* would_be_12th, as an Optional
would_be_12th(eligible, n_al) ==
    IF Len(eligible) > n_al THEN <<eligible[n_al]>> ELSE <<>>

\* displaced_team after the loop
Displaced(autos, at_large, eligible, n_al, total_teams) ==
    IF PulledIn(autos, total_teams) /\ Len(at_large) > 0
    THEN would_be_12th(eligible, n_al)
    ELSE <<>>

\* variant: the field is cut at rank total_teams, dropping a pulled-in champion
FinalField_byrank(autos, at_large, total_teams) ==
    SelectSeq(SortByRank(autos \o at_large), LAMBDA r : r.rank <= total_teams)

\* all_selected_sorted[:total_teams]
FinalField(autos, at_large, total_teams) ==
    head(SortByRank(autos \o at_large), total_teams)

SelectionLog(champs, n_auto, autos, at_large, displaced, field, total_teams) ==
    LET short == Len(champs) < n_auto
        pulled == {i \in 1..Len(autos) : autos[i].rank > total_teams}
        first == IF pulled = {} THEN 0
                 ELSE CHOOSE i \in pulled : \A j \in pulled : i <= j
    IN  <<<<"Found champions", Len(champs)>>>>
        \o (IF short THEN <<<<"WARNING only", Len(champs), n_auto>>>> ELSE <<>>)
        \o <<<<"Automatic bids", Len(autos)>>>>
        \o [i \in 1..Len(autos) |-> <<i, autos[i].rank, autos[i].team>>]
        \o <<<<"At-large bids", EffAtLarge(champs, n_auto, total_teams - n_auto)>>>>
        \o [i \in 1..Len(at_large) |-> <<i, at_large[i].rank, at_large[i].team>>]
        \o (IF displaced # <<>>
            THEN << <<"CHAMPION PULLED IN", autos[first].rank, autos[first].team>>,
                    <<"DISPLACED", displaced[1].rank, displaced[1].team>> >>
            ELSE <<>>)
        \o <<<<"Final 12-team playoff field">>>>
        \o [i \in 1..Len(field) |->
              <<i, field[i].rank, field[i].team,
                IF field[i].team \in Names(autos) THEN "AUTO" ELSE "AT-LARGE">>]

\* Each local of the function is bound once, in the order the code assigns it.
select_playoff_field ==
    /\ pc = "select"
    /\ \E total_teams \in {n_auto_bids + n_at_large} :
       \E sorted_df \in {SortByRank(rankings_df)} :
       \E champs \in {champs_df(sorted_df)} :
       \E n_al \in {EffAtLarge(champs, n_auto_bids, n_at_large)} :
       \E autos \in {auto_bid_teams(champs, n_auto_bids)} :
       \E eligible \in {eligible_at_large(sorted_df, Names(autos))} :
       \E at_large \in {at_large_teams(eligible, n_al)} :
       \E displaced \in {Displaced(autos, at_large, eligible, n_al, total_teams)} :
       \E field \in {FinalField(autos, at_large, total_teams)} :
           /\ auto_bids' = autos
           /\ at_large_bids' = at_large
           /\ champ_pulled_in' = PulledIn(autos, total_teams)
           /\ displaced_team' = displaced
           /\ playoff_teams' = field
           /\ audit_log' = SelectionLog(champs, n_auto_bids, autos, at_large,
                                        displaced, field, total_teams)
    /\ pc' = "seed"
    /\ UNCHANGED <<rankings_df, n_auto_bids, n_at_large, seeded_df,
                   first_round, all_rounds, error>>
    /\ UNCHANGED <<tb_vars, elo_vars, cr_vars, ms_vars>>
    /\ UNCHANGED <<sch_vars, sor_vars, sys_vars, sa_vars, fetch_vars>>

----------------------------------------------------------------------------
(* seed_playoff_teams *)
(* The rows of the model carry team, rank and conf_champ; the columns the  *)
(* function only copies (wins, losses, conference, composite_score) are    *)
(* left out.                                                               *)

champs_in_playoff(sorted_teams, auto_names) ==
    SelectSeq(sorted_teams, LAMBDA t : t.team \in auto_names)

\* variant: the [:4] slice is forgotten
top_4_champs_all(champs) == champs

top_4_champs(champs) == head(champs, ByeCount)

\* variant: every flagged champion is left out of the second loop
remaining_teams_unflagged(sorted_teams, top_4_names) ==
    SelectSeq(sorted_teams,
              LAMBDA t : t.team \notin top_4_names /\ ~ContainsYes(t.conf_champ))

remaining_teams(sorted_teams, top_4_names) ==
    SelectSeq(sorted_teams, LAMBDA t : t.team \notin top_4_names)

\* the rows appended by the first loop: seeds 1.. for the bye champions
ByeRows(top4) ==
    [i \in 1..Len(top4) |->
        [seed |-> i, team |-> top4[i].team, rank |-> top4[i].rank,
         conf_champ |-> top4[i].conf_champ, is_bye |-> TRUE]]

\* variant: the label of every row after the byes is blanked
RestRows_blank(remaining, auto_names, first) ==
    [i \in 1..Len(remaining) |->
        [seed |-> first + i - 1, team |-> remaining[i].team,
         rank |-> remaining[i].rank,
         conf_champ |-> NoChampLabel,
         is_bye |-> FALSE]]

\* the rows appended by the second loop, the seed counter continuing at first
RestRows(remaining, auto_names, first) ==
    [i \in 1..Len(remaining) |->
        [seed |-> first + i - 1, team |-> remaining[i].team,
         rank |-> remaining[i].rank,
         conf_champ |-> IF remaining[i].team \in auto_names
                        THEN remaining[i].conf_champ ELSE NoChampLabel,
         is_bye |-> FALSE]]

seed_playoff_teams ==
    /\ pc = "seed"
    /\ \E auto_names \in {Names(auto_bids)} :
       \E sorted_teams \in {SortByRank(playoff_teams)} :
       \E top4 \in {top_4_champs(champs_in_playoff(sorted_teams, auto_names))} :
       \E remaining \in {remaining_teams(sorted_teams, Names(top4))} :
           seeded_df' = ByeRows(top4)
                        \o RestRows(remaining, auto_names, Len(top4) + 1)
    /\ pc' = "bracket"
    /\ UNCHANGED <<rankings_df, n_auto_bids, n_at_large, playoff_teams,
                   auto_bids, at_large_bids, displaced_team, champ_pulled_in,
                   audit_log, first_round, all_rounds, error>>
    /\ UNCHANGED <<tb_vars, elo_vars, cr_vars, ms_vars>>
    /\ UNCHANGED <<sch_vars, sor_vars, sys_vars, sa_vars, fetch_vars>>

----------------------------------------------------------------------------
(* create_bracket_matchups *)

\* First round matchups
matchups == << <<5, 12>>, <<6, 11>>, <<7, 10>>, <<8, 9>> >>

\* variant: the winner labels are listed in first-round game order
qf_matchups_gameorder == << <<1, "Winner 5/12", "5/12">>,
                            <<2, "Winner 6/11", "6/11">>,
                            <<3, "Winner 7/10", "7/10">>,
                            <<4, "Winner 8/9", "8/9">> >>

\* (seed, winner_label, game_ref)
qf_matchups == << <<1, "Winner 8/9", "8/9">>,
                  <<2, "Winner 7/10", "7/10">>,
                  <<3, "Winner 6/11", "6/11">>,
                  <<4, "Winner 5/12", "5/12">> >>

\* seeded_df[seeded_df['seed'] == s]
SeedRows(df, s) == SelectSeq(df, LAMBDA r : r.seed = s)

\* .iloc[0] of that selection raises IndexError when it is empty
HasSeed(df, s) == SeedRows(df, s) # <<>>

\* the seeds the two loops look up
LookedUpSeeds ==
    {matchups[i][j] : i \in DOMAIN matchups, j \in 1..2}
    \cup {qf_matchups[i][1] : i \in DOMAIN qf_matchups}

\* variant: the visiting team is recorded as host
FirstRoundGame_awayhost(df, i) ==
    LET seed_high == matchups[i][1]
        seed_low == matchups[i][2]
        team_high == SeedRows(df, seed_high)[1]
        team_low == SeedRows(df, seed_low)[1]
    IN  [round |-> "First Round", game_num |-> i,
         seed_high |-> seed_high, seed_low |-> seed_low,
         team_high |-> team_high.team, team_low |-> team_low.team,
         is_bye |-> FALSE, host_team |-> <<team_low.team>>,
         location |-> <<"Campus of #", seed_high, " seed">>]

\* the BracketMatchup of first-round game i
FirstRoundGame(df, i) ==
    LET seed_high == matchups[i][1]
        seed_low == matchups[i][2]
        team_high == SeedRows(df, seed_high)[1]
        team_low == SeedRows(df, seed_low)[1]
    IN  [round |-> "First Round", game_num |-> i,
         seed_high |-> seed_high, seed_low |-> seed_low,
         team_high |-> team_high.team, team_low |-> team_low.team,
         is_bye |-> FALSE, host_team |-> <<team_high.team>>,
         location |-> <<"Campus of #", seed_high, " seed">>]

\* the BracketMatchup of quarterfinal slot i
QuarterfinalGame(df, i) ==
    LET seed == qf_matchups[i][1]
        winner_label == qf_matchups[i][2]
        team_seed == SeedRows(df, seed)[1]
    IN  [round |-> "Quarterfinals", game_num |-> i,
         seed_high |-> seed, seed_low |-> 0,
         team_high |-> team_seed.team, team_low |-> winner_label,
         is_bye |-> FALSE, host_team |-> <<>>,
         location |-> <<"Bowl Game (Neutral Site)">>]

\* variant: a game whose seed is absent is skipped and the rest is returned
create_bracket_matchups_partial ==
    /\ pc = "bracket"
    /\ \E fr \in {SelectSeq(matchups, LAMBDA m : HasSeed(seeded_df, m[1])
                                             /\ HasSeed(seeded_df, m[2]))} :
           /\ first_round' = fr
           /\ all_rounds' = [first_round |-> fr, quarterfinals |-> <<>>]
           /\ error' = "none"
           /\ pc' = "done"
    /\ UNCHANGED <<rankings_df, n_auto_bids, n_at_large, playoff_teams,
                   auto_bids, at_large_bids, displaced_team, champ_pulled_in,
                   audit_log, seeded_df>>
    /\ UNCHANGED <<tb_vars, elo_vars, cr_vars, ms_vars>>
    /\ UNCHANGED <<sch_vars, sor_vars, sys_vars, sa_vars, fetch_vars>>

create_bracket_matchups ==
    /\ pc = "bracket"
    /\ IF \A s \in LookedUpSeeds : HasSeed(seeded_df, s)
       THEN \E fr \in {[i \in DOMAIN matchups |-> FirstRoundGame(seeded_df, i)]} :
                /\ first_round' = fr
                /\ all_rounds' =
                     [first_round |-> fr,
                      quarterfinals |->
                        [i \in DOMAIN qf_matchups |-> QuarterfinalGame(seeded_df, i)]]
                /\ error' = "none"
                /\ pc' = "done"
       ELSE /\ error' = "IndexError"
            /\ pc' = "failed"
            /\ UNCHANGED <<first_round, all_rounds>>
    /\ UNCHANGED <<rankings_df, n_auto_bids, n_at_large, playoff_teams,
                   auto_bids, at_large_bids, displaced_team, champ_pulled_in,
                   audit_log, seeded_df>>
    /\ UNCHANGED <<tb_vars, elo_vars, cr_vars, ms_vars>>
    /\ UNCHANGED <<sch_vars, sor_vars, sys_vars, sa_vars, fetch_vars>>

----------------------------------------------------------------------------

Init ==
    /\ pc = "select"
    /\ \E N \in PoolSizes :
         \E S \in ChampSets(N) : rankings_df = MakeTable(N, S)
    /\ n_auto_bids \in AutoBidChoices
    /\ n_at_large = DefaultAtLarge
    /\ playoff_teams = <<>>
    /\ auto_bids = <<>>
    /\ at_large_bids = <<>>
    /\ displaced_team = <<>>
    /\ champ_pulled_in = FALSE
    /\ audit_log = <<>>
    /\ seeded_df = <<>>
    /\ first_round = <<>>
    /\ all_rounds = <<>>
    /\ error = "none"
    /\ TiebreakIdle /\ EloIdle /\ CompositeIdle /\ SeasonsIdle
    /\ ScheduleIdle /\ SorIdle /\ SystemsIdle /\ SeedingIdle /\ FetchIdle

Next ==
    \/ select_playoff_field
    \/ seed_playoff_teams
    \/ create_bracket_matchups

Spec == Init /\ [][Next]_vars

\* the playoff pipeline is not run
PipelineIdle ==
    /\ pc = "idle"
    /\ rankings_df = <<>> /\ n_auto_bids = 0 /\ n_at_large = 0
    /\ playoff_teams = <<>> /\ auto_bids = <<>> /\ at_large_bids = <<>>
    /\ displaced_team = <<>> /\ champ_pulled_in = FALSE /\ audit_log = <<>>
    /\ seeded_df = <<>> /\ first_round = <<>> /\ all_rounds = <<>>
    /\ error = "none"
pipe_vars == <<pc, rankings_df, n_auto_bids, n_at_large,
               playoff_teams, auto_bids, at_large_bids, displaced_team,
               champ_pulled_in, audit_log, seeded_df, first_round, all_rounds,
               error>>

----------------------------------------------------------------------------
(* apply_tiebreaker *)
(* Composite scores and the tolerance are counted in thousandths: 0.800 is *)
(* 800 and the default tolerance 0.01 is 10.                               *)

\* tolerance: float = 0.01
DefaultTolerance == 10
\* sos_ranks.get(team, 999) / sor_ranks.get(team, 999)
MissingRank == 999

\* largest game log handed to the tiebreaker
MaxTbGames == 2

Abs(x) == IF x < 0 THEN 0 - x ELSE x

\* dict.get(key, default)
Get(map, key, default) == IF key \in DOMAIN map THEN map[key] ELSE default

\* the rows of games_df in which the two teams meet, in log order
h2h_games(games_df, a, b) ==
    SelectSeq(games_df, LAMBDA g :
        \/ (g.home_team = a /\ g.away_team = b)
        \/ (g.home_team = b /\ g.away_team = a))

\* winner of one row: the home team on a larger home score, else the away team
GameWinner(game) ==
    IF game.home_score > game.away_score THEN game.home_team
    ELSE game.away_team

\* the loop over h2h_games: the first row whose winner is one of the two
\* teams ends the function; an Optional
H2HWinner(h2h, a, b) ==
    LET hits == {i \in DOMAIN h2h : GameWinner(h2h[i]) \in {a, b}}
    IN  IF hits = {} THEN <<>>
        ELSE <<GameWinner(h2h[CHOOSE i \in hits : \A j \in hits : i <= j])>>

\* variant: a difference equal to the tolerance still enters the cascade
ScoresApart_strict(score_diff, tolerance) == score_diff > tolerance

\* if score_diff >= tolerance
ScoresApart(score_diff, tolerance) == score_diff >= tolerance

\* variant: the SOR rank is compared before the SOS rank
RankCascade_sorfirst(a, b, sos_a, sos_b, sor_a, sor_b, score_a, score_b) ==
    IF sor_a # sor_b
    THEN <<IF sor_a < sor_b THEN a ELSE b,
           <<"Strength of Record", IF sor_a < sor_b THEN sor_a ELSE sor_b,
                                   IF sor_a < sor_b THEN sor_b ELSE sor_a>> >>
    ELSE IF sos_a # sos_b
    THEN <<IF sos_a < sos_b THEN a ELSE b,
           <<"Strength of Schedule", IF sos_a < sos_b THEN sos_a ELSE sos_b,
                                     IF sos_a < sos_b THEN sos_b ELSE sos_a>> >>
    ELSE <<IF score_a > score_b THEN a ELSE b,
           <<"Composite score (marginal difference)">> >>

\* steps 3 to 5: SOS rank, SOR rank, composite score
RankCascade(a, b, sos_a, sos_b, sor_a, sor_b, score_a, score_b) ==
    IF sos_a # sos_b
    THEN <<IF sos_a < sos_b THEN a ELSE b,
           <<"Strength of Schedule", IF sos_a < sos_b THEN sos_a ELSE sos_b,
                                     IF sos_a < sos_b THEN sos_b ELSE sos_a>> >>
    ELSE IF sor_a # sor_b
    THEN <<IF sor_a < sor_b THEN a ELSE b,
           <<"Strength of Record", IF sor_a < sor_b THEN sor_a ELSE sor_b,
                                   IF sor_a < sor_b THEN sor_b ELSE sor_a>> >>
    ELSE <<IF score_a > score_b THEN a ELSE b,
           <<"Composite score (marginal difference)">> >>

\* the (winner, reason) apply_tiebreaker returns
apply_tiebreaker(team_a, team_b, games_df, sos_ranks, sor_ranks, tolerance) ==
    LET team_a_name == team_a.team
        team_b_name == team_b.team
        score_diff == Abs(team_a.composite_score - team_b.composite_score)
        h2h == H2HWinner(h2h_games(games_df, team_a_name, team_b_name),
                         team_a_name, team_b_name)
    IN  IF ScoresApart(score_diff, tolerance)
        THEN <<IF team_a.composite_score > team_b.composite_score
               THEN team_a_name ELSE team_b_name,
               <<"Composite score difference", score_diff>> >>
        ELSE IF h2h # <<>>
        THEN <<h2h[1], <<"Head-to-head", h2h[1]>> >>
        ELSE RankCascade(team_a_name, team_b_name,
                         Get(sos_ranks, team_a_name, MissingRank),
                         Get(sos_ranks, team_b_name, MissingRank),
                         Get(sor_ranks, team_a_name, MissingRank),
                         Get(sor_ranks, team_b_name, MissingRank),
                         team_a.composite_score, team_b.composite_score)

\* one call of apply_tiebreaker
tiebreak ==
    /\ tb_args # <<>>
    /\ tb_result = <<>>
    /\ tb_result' = apply_tiebreaker(tb_args.team_a, tb_args.team_b,
                                     tb_args.games_df, tb_args.sos_ranks,
                                     tb_args.sor_ranks, tb_args.tolerance)
    /\ UNCHANGED <<tb_args, tb_swapped, pipe_vars, elo_vars, cr_vars, ms_vars>>
    /\ UNCHANGED <<sch_vars, sor_vars, sys_vars, sa_vars, fetch_vars>>

\* a second call, apply_tiebreaker(team_b, team_a, ...), on the same data
tiebreak_swapped ==
    /\ tb_result # <<>>
    /\ tb_swapped = <<>>
    /\ tb_swapped' = apply_tiebreaker(tb_args.team_b, tb_args.team_a,
                                      tb_args.games_df, tb_args.sos_ranks,
                                      tb_args.sor_ranks, tb_args.tolerance)
    /\ UNCHANGED <<tb_args, tb_result, pipe_vars, elo_vars, cr_vars, ms_vars>>
    /\ UNCHANGED <<sch_vars, sor_vars, sys_vars, sa_vars, fetch_vars>>

(* Inputs of the tiebreaker *)

\* the games a log is built from: the two teams at either home, and a game
\* against a third team; home win, away win and level scores
TbGames ==
    {[home_team |-> p[1], away_team |-> p[2],
      home_score |-> sc[1], away_score |-> sc[2]] :
        p \in {<<"A", "B">>, <<"B", "A">>, <<"A", "C">>},
        sc \in {<<24, 17>>, <<17, 24>>, <<20, 20>>}}

RECURSIVE SeqsUpTo(_, _)
\* all sequences over S of length at most n
SeqsUpTo(S, n) ==
    IF n = 0 THEN {<<>>}
    ELSE LET shorter == SeqsUpTo(S, n - 1)
         IN  shorter \cup {Append(q, x) : q \in shorter, x \in S}

\* rank maps over the two teams: each team is absent or holds one of its ranks
TbRankMaps(ranks_a, ranks_b) ==
    {m \in UNION {[D -> ranks_a \cup ranks_b] : D \in SUBSET {"A", "B"}} :
        /\ "A" \in DOMAIN m => m["A"] \in ranks_a
        /\ "B" \in DOMAIN m => m["B"] \in ranks_b}

InitTiebreak ==
    /\ PipelineIdle /\ EloIdle /\ CompositeIdle /\ SeasonsIdle
    /\ ScheduleIdle /\ SorIdle /\ SystemsIdle /\ SeedingIdle /\ FetchIdle
    /\ tb_result = <<>>
    /\ tb_swapped = <<>>
    /\ \E sa \in {790, 795, 800}, sb \in {500, 795, 800} :
       \E games \in SeqsUpTo(TbGames, MaxTbGames) :
       \E sos \in {m \in TbRankMaps({1}, {1, 1000}) : "B" \in DOMAIN m} :
       \E sor \in TbRankMaps({1}, {2}) :
           tb_args = [team_a |-> [team |-> "A", composite_score |-> sa],
                      team_b |-> [team |-> "B", composite_score |-> sb],
                      games_df |-> games,
                      sos_ranks |-> sos, sor_ranks |-> sor,
                      tolerance |-> DefaultTolerance]

NextTiebreak == tiebreak \/ tiebreak_swapped

SpecTiebreak == InitTiebreak /\ [][NextTiebreak]_vars

----------------------------------------------------------------------------
(* EloRatings *)
(* Ratings are counted in hundredths of a rating point (1505.0 is 150500), *)
(* probabilities in ten-thousandths (0.5 is 5000), score margins in        *)
(* hundredths of a point.  The two logistic curves are tabulated at the    *)
(* grid points below and interpolated linearly in between; a product by k  *)
(* is rounded down to the next hundredth.                                  *)

MaxEloGames == 2
MaxEloRuns == 2
MaxEloUpdates == 1

EloBase == 150500
EloK == 85
HfaPoints == 375
HfaBonus == 5500
MovCap == 2800
One == 10000

\* 1 / (1 + 10 ** (-x / 400)) at x = 0, 50, ..., 800
ExpectedTable ==
    <<5000, 5715, 6401, 7034, 7597, 8083, 8490, 8823, 9091,
      9302, 9468, 9595, 9693, 9768, 9825, 9868, 9901>>
ExpectedStep == 5000

\* 1 / (1 + 10 ** (-d / 17)) at d = 0, 1, ..., 28
MovTable ==
    <<5000, 5338, 5673, 6002, 6322, 6631, 6927, 7207, 7472, 7719,
      7949, 8161, 8355, 8533, 8695, 8841, 8973, 9091, 9197, 9291,
      9376, 9450, 9517, 9575, 9627, 9673, 9713, 9748, 9780>>
MovStep == 100

\* the tabulated curve at x >= 0, flat beyond the last grid point
Interp(table, step, x) ==
    LET i == x \div step
    IN  IF i + 1 >= Len(table) THEN table[Len(table)]
        ELSE table[i + 1] + ((table[i + 2] - table[i + 1]) * (x % step)) \div step

\* 1 / (1 + 10 ** (-x / scale)): the curve is symmetric about (0, 1/2)
Logistic(table, step, x) ==
    IF x >= 0 THEN Interp(table, step, x) ELSE One - Interp(table, step, -x)

Clip(x, lo, hi) == IF x < lo THEN lo ELSE IF x > hi THEN hi ELSE x

initialize_ratings(teams) == [team \in teams |-> EloBase]

expected_score(rating_a, rating_b) ==
    Logistic(ExpectedTable, ExpectedStep, rating_a - rating_b)

mov_multiplier(score_diff, is_neutral) ==
    LET hfa_adjusted_diff ==
            Clip(100 * score_diff - (IF is_neutral THEN 0 ELSE HfaPoints),
                 -MovCap, MovCap)
    IN  Logistic(MovTable, MovStep, hfa_adjusted_diff)

\* self.ratings after update_game; both teams are keys of ratings
update_game(ratings, game) ==
    LET hfa_bonus == IF game.neutral_site THEN 0 ELSE HfaBonus
        home_rating == ratings[game.home_team] + hfa_bonus
        away_rating == ratings[game.away_team]
        home_expected == expected_score(home_rating, away_rating)
        score_diff == game.home_score - game.away_score
        s_adj == mov_multiplier(score_diff, game.neutral_site)
        home_actual == IF score_diff > 0 THEN s_adj ELSE One - s_adj
        away_actual == IF score_diff > 0 THEN One - s_adj ELSE s_adj
    IN  [team \in DOMAIN ratings |->
            IF team = game.home_team
            THEN ratings[team] + (EloK * (home_actual - home_expected)) \div 100
            ELSE IF team = game.away_team
            THEN ratings[team]
                   + (EloK * (away_actual - (One - home_expected))) \div 100
            ELSE ratings[team]]

\* sort_values(["week", "date"]): games of one week and date keep their order
GameBefore(g, h) ==
    g.week < h.week \/ (g.week = h.week /\ g.date < h.date)

RECURSIVE InsertByDate(_, _)
InsertByDate(game, sorted) ==
    IF sorted = <<>> THEN <<game>>
    ELSE IF GameBefore(game, Head(sorted)) THEN <<game>> \o sorted
    ELSE <<Head(sorted)>> \o InsertByDate(game, Tail(sorted))

RECURSIVE games_sorted(_)
games_sorted(games_df) ==
    IF games_df = <<>> THEN <<>>
    ELSE InsertByDate(games_df[Len(games_df)],
                      games_sorted(SubSeq(games_df, 1, Len(games_df) - 1)))

SeasonTeams(games_df) ==
    {games_df[i].home_team : i \in DOMAIN games_df}
        \cup {games_df[i].away_team : i \in DOMAIN games_df}

\* the loop of process_season over the sorted games
RECURSIVE PlayGames(_, _)
PlayGames(ratings, games) ==
    IF games = <<>> THEN ratings
    ELSE PlayGames(update_game(ratings, Head(games)), Tail(games))

\* the ratings process_season returns and leaves in self.ratings
process_season(games_df) ==
    PlayGames(initialize_ratings(SeasonTeams(games_df)), games_sorted(games_df))

\* EloRatings(): a fresh instance
new_instance ==
    /\ elo_games # <<>>
    /\ elo_ratings # <<>>
    /\ elo_ratings' = <<>>
    /\ UNCHANGED <<elo_games, elo_runs, elo_last, elo_updates>>
    /\ UNCHANGED <<pipe_vars, tb_vars, cr_vars, ms_vars>>
    /\ UNCHANGED <<sch_vars, sor_vars, sys_vars, sa_vars, fetch_vars>>

\* process_season keeps what the instance held for the teams it knew
run_season_carry ==
    /\ elo_games # <<>>
    /\ Len(elo_runs) < MaxEloRuns
    /\ \E teams \in {SeasonTeams(elo_games)} :
       \E start \in {[team \in teams |->
                        IF team \in DOMAIN elo_ratings
                        THEN elo_ratings[team] ELSE EloBase]} :
       \E result \in {PlayGames(start, games_sorted(elo_games))} :
          /\ elo_ratings' = result
          /\ elo_runs' = Append(elo_runs, [before |-> elo_ratings,
                                           result |-> result])
    /\ UNCHANGED <<elo_games, elo_last, elo_updates>>
    /\ UNCHANGED <<pipe_vars, tb_vars, cr_vars, ms_vars>>
    /\ UNCHANGED <<sch_vars, sor_vars, sys_vars, sa_vars, fetch_vars>>

\* elo.process_season(games_df) on the instance, for the season under test
run_season ==
    /\ elo_games # <<>>
    /\ Len(elo_runs) < MaxEloRuns
    /\ \E result \in {process_season(elo_games)} :
          /\ elo_ratings' = result
          /\ elo_runs' = Append(elo_runs, [before |-> elo_ratings,
                                           result |-> result])
    /\ UNCHANGED <<elo_games, elo_last, elo_updates>>
    /\ UNCHANGED <<pipe_vars, tb_vars, cr_vars, ms_vars>>
    /\ UNCHANGED <<sch_vars, sor_vars, sys_vars, sa_vars, fetch_vars>>

\* games between three teams: home win, away win and level game on a
\* neutral field, and a rout at home beyond the margin cap
EloGames ==
    {[week |-> 1, date |-> 1, home_team |-> "A", away_team |-> "B",
      home_score |-> 20, away_score |-> 10, neutral_site |-> TRUE],
     [week |-> 1, date |-> 1, home_team |-> "A", away_team |-> "B",
      home_score |-> 10, away_score |-> 20, neutral_site |-> TRUE],
     [week |-> 1, date |-> 2, home_team |-> "A", away_team |-> "B",
      home_score |-> 17, away_score |-> 17, neutral_site |-> TRUE],
     [week |-> 2, date |-> 1, home_team |-> "B", away_team |-> "C",
      home_score |-> 35, away_score |-> 0, neutral_site |-> FALSE]}

\* elo.update_game(...) called on the instance; a team that is not a key of
\* self.ratings raises KeyError before anything is assigned
play_game ==
    /\ elo_games # <<>>
    /\ elo_updates < MaxEloUpdates
    /\ \E game \in EloGames :
          /\ {game.home_team, game.away_team} \subseteq DOMAIN elo_ratings
          /\ \E after \in {update_game(elo_ratings, game)} :
                /\ elo_ratings' = after
                /\ elo_last' = <<[before |-> elo_ratings, game |-> game,
                                  after |-> after]>>
    /\ elo_updates' = elo_updates + 1
    /\ UNCHANGED <<elo_games, elo_runs>>
    /\ UNCHANGED <<pipe_vars, tb_vars, cr_vars, ms_vars>>
    /\ UNCHANGED <<sch_vars, sor_vars, sys_vars, sa_vars, fetch_vars>>

InitElo ==
    /\ PipelineIdle /\ TiebreakIdle /\ CompositeIdle /\ SeasonsIdle
    /\ ScheduleIdle /\ SorIdle /\ SystemsIdle /\ SeedingIdle /\ FetchIdle
    /\ elo_games \in SeqsUpTo(EloGames, MaxEloGames) \ {<<>>}
    /\ elo_ratings = <<>>
    /\ elo_runs = <<>>
    /\ elo_last = <<>>
    /\ elo_updates = 0

NextElo == run_season \/ play_game \/ new_instance

SpecElo == InitElo /\ [][NextElo]_vars

----------------------------------------------------------------------------
(* calculate_composite_rankings *)
(* Scores on the 0-1 scale are counted in thousandths.  The ratings of a   *)
(* successful Colley or Massey solve and the SOR and SOS scores of         *)
(* utils/metrics.py are inputs of the model: any value of a small set per  *)
(* team.  The provisional scores, which only feed calculate_sor, are left  *)
(* out with it.  Rows that tie on composite_score may leave sort_values in *)
(* any order.                                                              *)

MaxCrGames == 2

Unit == 1000

\* sorted(set(home teams) | set(away teams)) over the names of the model
TeamOrder == <<"A", "B", "C">>
InLog(games_df, team) == team \in SeasonTeams(games_df)
teams_of(games_df) == SelectSeq(TeamOrder, LAMBDA team : InLog(games_df, team))

\* the games of a team and its wins among them
team_games(games_df, team) ==
    SelectSeq(games_df,
              LAMBDA game : game.home_team = team \/ game.away_team = team)

WonBy(game, team) ==
    IF game.home_team = team THEN game.home_score > game.away_score
    ELSE game.away_score > game.home_score

win_pct(games_df, team) ==
    LET tg == team_games(games_df, team)
        wins == Cardinality({i \in DOMAIN tg : WonBy(tg[i], team)})
    IN  IF Len(tg) > 0 THEN (Unit * wins) \div Len(tg) ELSE 0

SetMin(S) == CHOOSE x \in S : \A y \in S : x <= y
SetMax(S) == CHOOSE x \in S : \A y \in S : x >= y

\* [[ratings.get(t, 0)] for t in teams], as a map over the teams
component_values(ratings, teams) ==
    [team \in teams |-> Get(ratings, team, 0)]

\* a constant column is scaled to one half
fit_transform_mid(values) ==
    LET lo == SetMin({values[t] : t \in DOMAIN values})
        hi == SetMax({values[t] : t \in DOMAIN values})
    IN  [t \in DOMAIN values |->
            IF hi = lo THEN Unit \div 2
            ELSE (Unit * (values[t] - lo)) \div (hi - lo)]

\* MinMaxScaler().fit_transform on one column: a constant column has scale 1
\* and comes out as 0
fit_transform(values) ==
    LET lo == SetMin({values[t] : t \in DOMAIN values})
        hi == SetMax({values[t] : t \in DOMAIN values})
    IN  [t \in DOMAIN values |->
            IF hi = lo THEN 0
            ELSE (Unit * (values[t] - lo)) \div (hi - lo)]

resume_score(colley_norm, win_pct_norm) ==
    (6 * colley_norm + 4 * win_pct_norm) \div 10

predictive_score(massey_norm, elo_norm) ==
    (5 * massey_norm + 5 * elo_norm) \div 10

composite_score(resume_norm, predictive_norm, sor_norm, sos_norm) ==
    (50 * resume_norm + 30 * predictive_norm + 10 * sor_norm + 10 * sos_norm)
        \div 100

\* the orders in which sort_values(ascending=False) can leave the rows
DescendingOrders(rows) ==
    {f \in [DOMAIN rows -> DOMAIN rows] :
        /\ \A i, j \in DOMAIN rows : i # j => f[i] # f[j]
        /\ \A i, j \in DOMAIN rows :
              i < j => rows[f[i]].composite_score >= rows[f[j]].composite_score}

\* rows that tie share the rank of the first of them
rank_column_tied(df) ==
    [i \in DOMAIN df |->
        1 + Cardinality({j \in DOMAIN df :
                            df[j].composite_score > df[i].composite_score})]

\* df["rank"] = range(1, len(df) + 1)
rank_column(df) == [i \in DOMAIN df |-> i]

calculate_composite_rankings ==
    /\ cr_args # <<>>
    /\ cr_result = <<>>
    /\ \E games_df \in {cr_args[1].games_df} :
       \E teams \in {teams_of(games_df)} :
       \E names \in {SeasonTeams(games_df)} :
       \E elo \in {process_season(games_df)} :
       \E win_pcts \in {[t \in names |-> win_pct(games_df, t)]} :
       \E colley_norm \in
             {fit_transform(component_values(cr_args[1].colley_ratings, names))} :
       \E massey_norm \in
             {fit_transform(component_values(cr_args[1].massey_ratings, names))} :
       \E elo_norm \in {fit_transform(component_values(elo, names))} :
       \E resume \in
             {[t \in names |-> resume_score(colley_norm[t], win_pcts[t])]} :
       \E predictive \in
             {[t \in names |-> predictive_score(massey_norm[t], elo_norm[t])]} :
       \E resume_norm \in {fit_transform(resume)} :
       \E predictive_norm \in {fit_transform(predictive)} :
       \E sor_norm \in {fit_transform(cr_args[1].sor_scores)} :
       \E sos_norm \in {fit_transform(cr_args[1].sos_scores)} :
       \E results \in
             {[i \in DOMAIN teams |->
                 [team |-> teams[i],
                  composite_score |->
                      composite_score(resume_norm[teams[i]],
                                      predictive_norm[teams[i]],
                                      sor_norm[teams[i]], sos_norm[teams[i]]),
                  resume_score |-> resume[teams[i]],
                  predictive_score |-> predictive[teams[i]],
                  colley_rating |->
                      Get(cr_args[1].colley_ratings, teams[i], 0),
                  massey_rating |->
                      Get(cr_args[1].massey_ratings, teams[i], 0),
                  win_pct |-> win_pcts[teams[i]]]]} :
       \E f \in DescendingOrders(results) :
       \E df \in {[i \in DOMAIN results |-> results[f[i]]]} :
       \E rank \in {rank_column(df)} :
          cr_result' =
             <<[df |-> [i \in DOMAIN df |->
                          [team |-> df[i].team,
                           composite_score |-> df[i].composite_score,
                           resume_score |-> df[i].resume_score,
                           predictive_score |-> df[i].predictive_score,
                           colley_rating |-> df[i].colley_rating,
                           massey_rating |-> df[i].massey_rating,
                           win_pct |-> df[i].win_pct,
                           rank |-> rank[i]]],
                colley_norm |-> colley_norm,
                massey_norm |-> massey_norm]>>
    /\ UNCHANGED <<cr_args, pipe_vars, tb_vars, elo_vars, ms_vars>>
    /\ UNCHANGED <<sch_vars, sor_vars, sys_vars, sa_vars, fetch_vars>>

\* what solve() returns: {} after a caught error, else a rating per team
SolveOutcomes(names, values) == {<<>>} \cup [names -> values]

InitComposite ==
    /\ PipelineIdle /\ TiebreakIdle /\ EloIdle /\ SeasonsIdle
    /\ ScheduleIdle /\ SorIdle /\ SystemsIdle /\ SeedingIdle /\ FetchIdle
    /\ \E games_df \in SeqsUpTo(EloGames, MaxCrGames) \ {<<>>} :
       \E names \in {SeasonTeams(games_df)} :
       \E colley \in SolveOutcomes(names, {400, 600}) :
       \E massey \in SolveOutcomes(names, {-3000, 3000}) :
       \E sor \in [names -> {200, 800}] :
       \E sos \in [names -> {200, 800}] :
          cr_args = <<[games_df |-> games_df,
                       colley_ratings |-> colley,
                       massey_ratings |-> massey,
                       sor_scores |-> sor,
                       sos_scores |-> sos]>>
    /\ cr_result = <<>>

NextComposite == calculate_composite_rankings

SpecComposite == InitComposite /\ [][NextComposite]_vars

----------------------------------------------------------------------------
(* run_multiple_seasons_backtest *)
(* One step per iteration of the loop over years, then the flattening and  *)
(* the return.  run_season_backtest(year) ends in one of three ways: it     *)
(* returns the metrics of the season, it returns {"error": ...}, or it     *)
(* raises an Exception (a missing API key, a failed request, a missing     *)
(* key).  A season's result is kept as its year and the models it holds.   *)

MaxYears == 3

Years == {2023, 2024}
BaselineModels == <<"elo", "srs", "home_field">>

\* the dict run_season_backtest returns for a season with games and
\* historical rankings
season_results(year, include_baselines) ==
    [year |-> year,
     models |-> IF include_baselines THEN <<"composite">> \o BaselineModels
                ELSE <<"composite">>]

HasModel(result, model_name) ==
    \E i \in DOMAIN result.models : result.models[i] = model_name

\* the rows one season contributes to flattened_results
season_rows(result, include_baselines) ==
    <<[year |-> result.year, model |-> "composite"]>>
    \o (IF include_baselines
        THEN [i \in DOMAIN SelectSeq(BaselineModels,
                                     LAMBDA m : HasModel(result, m)) |->
                 [year |-> result.year,
                  model |-> SelectSeq(BaselineModels,
                                       LAMBDA m : HasModel(result, m))[i]]]
        ELSE <<>>)

RECURSIVE flattened_results(_, _)
flattened_results(results, include_baselines) ==
    IF results = <<>> THEN <<>>
    ELSE season_rows(Head(results), include_baselines)
            \o flattened_results(Tail(results), include_baselines)

InLoop == ms_pos < Len(ms_years) /\ ms_return = <<>>

\* the season returned its metrics: "error" not in results
season_ok ==
    /\ InLoop
    /\ all_results' =
          Append(all_results, season_results(ms_years[ms_pos + 1], ms_include))
    /\ ms_outcomes' = Append(ms_outcomes, "ok")
    /\ ms_pos' = ms_pos + 1
    /\ UNCHANGED <<ms_years, ms_include, ms_return>>
    /\ UNCHANGED <<pipe_vars, tb_vars, elo_vars, cr_vars>>
    /\ UNCHANGED <<sch_vars, sor_vars, sys_vars, sa_vars, fetch_vars>>

\* the season returned {"error": ...}: nothing is appended
season_error ==
    /\ InLoop
    /\ ms_outcomes' = Append(ms_outcomes, "error")
    /\ ms_pos' = ms_pos + 1
    /\ UNCHANGED <<ms_years, ms_include, all_results, ms_return>>
    /\ UNCHANGED <<pipe_vars, tb_vars, elo_vars, cr_vars>>
    /\ UNCHANGED <<sch_vars, sor_vars, sys_vars, sa_vars, fetch_vars>>

\* the exception of a season leaves the function
season_raises_uncaught ==
    /\ InLoop
    /\ ms_outcomes' = Append(ms_outcomes, "raises")
    /\ ms_return' = <<[raised |-> TRUE, df |-> <<>>]>>
    /\ UNCHANGED <<ms_years, ms_include, ms_pos, all_results>>
    /\ UNCHANGED <<pipe_vars, tb_vars, elo_vars, cr_vars>>
    /\ UNCHANGED <<sch_vars, sor_vars, sys_vars, sa_vars, fetch_vars>>

\* the season raised an Exception: except prints it and continues
season_raises ==
    /\ InLoop
    /\ ms_outcomes' = Append(ms_outcomes, "raises")
    /\ ms_pos' = ms_pos + 1
    /\ UNCHANGED <<ms_years, ms_include, all_results, ms_return>>
    /\ UNCHANGED <<pipe_vars, tb_vars, elo_vars, cr_vars>>
    /\ UNCHANGED <<sch_vars, sor_vars, sys_vars, sa_vars, fetch_vars>>

\* after the loop: an empty DataFrame without results, else the flattened rows
return_summary ==
    /\ ms_pos = Len(ms_years)
    /\ ms_return = <<>>
    /\ ms_return' =
          <<[raised |-> FALSE,
             df |-> IF all_results = <<>> THEN <<>>
                    ELSE flattened_results(all_results, ms_include)]>>
    /\ UNCHANGED <<ms_years, ms_include, ms_pos, ms_outcomes, all_results>>
    /\ UNCHANGED <<pipe_vars, tb_vars, elo_vars, cr_vars>>
    /\ UNCHANGED <<sch_vars, sor_vars, sys_vars, sa_vars, fetch_vars>>

InitSeasons ==
    /\ PipelineIdle /\ TiebreakIdle /\ EloIdle /\ CompositeIdle
    /\ ScheduleIdle /\ SorIdle /\ SystemsIdle /\ SeedingIdle /\ FetchIdle
    /\ ms_years \in SeqsUpTo(Years, MaxYears)
    /\ ms_include \in BOOLEAN
    /\ ms_pos = 0
    /\ ms_outcomes = <<>>
    /\ all_results = <<>>
    /\ ms_return = <<>>

NextSeasons == season_ok \/ season_error \/ season_raises \/ return_summary

SpecSeasons == InitSeasons /\ [][NextSeasons]_vars

----------------------------------------------------------------------------
(* calculate_seeding_accuracy and its caller run_season_backtest *)
(* A dict is a function from its keys.  Ratios and errors are counted in   *)
(* thousandths; a square root is rounded down.                             *)

MaxSeeds == 2

SeedTeams == {"A", "B", "C", "D"}

\* lists of distinct teams, best first, of length 1..n
TopLists(n) ==
    {q \in SeqsUpTo(SeedTeams, n) :
        /\ q # <<>>
        /\ \A i, j \in DOMAIN q : i # j => q[i] # q[j]}

\* {team: i + 1 for i, team in enumerate(top)}
SeedsOf(top) ==
    [team \in {top[i] : i \in DOMAIN top} |->
        CHOOSE i \in DOMAIN top : top[i] = team]

RECURSIVE SumOver(_, _)
\* the sum of val[x] over the elements x of S
SumOver(S, val) ==
    IF S = {} THEN 0
    ELSE LET x == CHOOSE y \in S : TRUE
         IN  val[x] + SumOver(S \ {x}, val)

\* np.sqrt of a value in millionths, in thousandths
Sqrt(n) == CHOOSE r \in 0..(12 * Unit) : r * r <= n /\ (r + 1) * (r + 1) > n

calculate_seeding_accuracy(simulator_seeds, cfp_seeds) ==
    LET common_teams == DOMAIN simulator_seeds \cap DOMAIN cfp_seeds
        n == Cardinality(common_teams)
        err == [t \in common_teams |-> Abs(simulator_seeds[t] - cfp_seeds[t])]
        exact_matches == Cardinality({t \in common_teams : err[t] = 0})
        within_one == Cardinality({t \in common_teams : err[t] <= 1})
        squares == [t \in common_teams |-> err[t] * err[t]]
    IN  IF n = 0
        THEN [exact_match |-> 0, within_one |-> 0, mae |-> 0]
        ELSE [exact_match |-> (Unit * exact_matches) \div n,
              within_one |-> (Unit * within_one) \div n,
              mae |-> (Unit * SumOver(common_teams, err)) \div n,
              rmse |-> Sqrt((Unit * Unit * SumOver(common_teams, squares))
                              \div n)]

\* run_season_backtest: seeding_metrics = calculate_seeding_accuracy(...)
seeding_metrics ==
    /\ sa_status = "start"
    /\ sa_result' =
          <<calculate_seeding_accuracy(SeedsOf(sa_args[1].composite_top12),
                                       SeedsOf(sa_args[1].cfp_playoff_teams))>>
    /\ sa_status' = "metrics"
    /\ UNCHANGED sa_args
    /\ UNCHANGED <<pipe_vars, tb_vars, elo_vars, cr_vars, ms_vars>>
    /\ UNCHANGED <<sch_vars, sor_vars, sys_vars, fetch_vars>>

\* the keys run_season_backtest reads while it compiles results["composite"]
MetricsRead == {"exact_match", "within_one", "mae", "rmse"}

\* run_season_backtest: a key that is missing raises KeyError
compile_results ==
    /\ sa_status = "metrics"
    /\ sa_status' = IF MetricsRead \subseteq DOMAIN sa_result[1]
                    THEN "compiled" ELSE "KeyError"
    /\ UNCHANGED <<sa_args, sa_result>>
    /\ UNCHANGED <<pipe_vars, tb_vars, elo_vars, cr_vars, ms_vars>>
    /\ UNCHANGED <<sch_vars, sor_vars, sys_vars, fetch_vars>>

InitSeeding ==
    /\ PipelineIdle /\ TiebreakIdle /\ EloIdle /\ CompositeIdle /\ SeasonsIdle
    /\ ScheduleIdle /\ SorIdle /\ SystemsIdle /\ FetchIdle
    /\ \E top \in TopLists(MaxSeeds), cfp \in TopLists(MaxSeeds) :
          sa_args = <<[composite_top12 |-> top, cfp_playoff_teams |-> cfp]>>
    /\ sa_result = <<>>
    /\ sa_status = "start"

NextSeeding == seeding_metrics \/ compile_results

SpecSeeding == InitSeeding /\ [][NextSeeding]_vars

----------------------------------------------------------------------------
(* fetch_season_games *)
(* A payload game is spelled in snake_case or in camelCase; reading a key  *)
(* of the other spelling gives None.  The row columns the function only    *)
(* copies (game_id, conferences, neutral_site, date) are left out.         *)

MaxWeeks == 2

LastWeek == 15
FirstWeek == LastWeek + 1 - MaxWeeks

None == <<>>

\* Python truth of an optional number or name
Truthy(value) == value # None /\ value[1] # 0
\* a or b
PyOr(a, b) == IF Truthy(a) THEN a ELSE b

\* game.get(key) for a key of the given spelling
GameGet(game, spelling, field) ==
    IF game.spelling = spelling THEN game[field] ELSE None

\* game.get("home_team") or game.get("homeTeam"), and the like
EitherSpelling(game, field) ==
    PyOr(GameGet(game, "snake_case", field), GameGet(game, "camelCase", field))

KeepsGame(game, fbs_teams) ==
    /\ EitherSpelling(game, "home_team") # None
    /\ EitherSpelling(game, "home_team")[1] \in fbs_teams
    /\ EitherSpelling(game, "away_team") # None
    /\ EitherSpelling(game, "away_team")[1] \in fbs_teams
    /\ EitherSpelling(game, "home_points") # None
    /\ EitherSpelling(game, "away_points") # None

GameRow(game) ==
    [week |-> game.week,
     home_team |-> EitherSpelling(game, "home_team")[1],
     away_team |-> EitherSpelling(game, "away_team")[1],
     home_score |-> EitherSpelling(game, "home_points")[1],
     away_score |-> EitherSpelling(game, "away_points")[1]]

\* all_games after the loop over range(start_week, 16): the games of the
\* responses with status 200; a failed request or another status adds none
RECURSIVE all_games(_, _)
all_games(responses, week) ==
    IF week > LastWeek THEN <<>>
    ELSE (IF responses[week].status = "200" THEN responses[week].games
          ELSE <<>>)
         \o all_games(responses, week + 1)

games_data(games, fbs_teams) ==
    LET kept == SelectSeq(games, LAMBDA game : KeepsGame(game, fbs_teams))
    IN  [i \in DOMAIN kept |-> GameRow(kept[i])]

fetch_season_games ==
    /\ fetch_args # <<>>
    /\ fetch_result = <<>>
    /\ fetch_result' =
          <<games_data(all_games(fetch_args[1].responses,
                                 fetch_args[1].start_week),
                       fetch_args[1].fbs_teams)>>
    /\ UNCHANGED fetch_args
    /\ UNCHANGED <<pipe_vars, tb_vars, elo_vars, cr_vars, ms_vars>>
    /\ UNCHANGED <<sch_vars, sor_vars, sys_vars, sa_vars>>

\* team names are numbers, as in the ranking tables: two FBS teams and one
\* team of a lower division
FbsTeams == {TeamName(1), TeamName(2)}
LowerDivisionTeam == TeamName(3)

\* the games of week w a provider may report: either spelling, an FBS or a
\* lower-division home team, a missing score, a shutout
PayloadGames(w) ==
    {[spelling |-> sp, week |-> w, home_team |-> <<h>>,
      away_team |-> <<TeamName(2)>>, home_points |-> hp, away_points |-> ap] :
        sp \in {"snake_case", "camelCase"},
        h \in {TeamName(1), LowerDivisionTeam},
        hp \in {None, <<0>>, <<21>>}, ap \in {<<0>>, <<14>>}}

\* the answers to the request for week w: status 200 with no game or one,
\* another status, or a request that raises
WeekResponses(w) ==
    {[status |-> "200", games |-> <<>>]}
    \cup {[status |-> "200", games |-> <<g>>] : g \in PayloadGames(w)}
    \cup {[status |-> st, games |-> <<>>] : st \in {"500", "raises"}}

InitFetch ==
    /\ PipelineIdle /\ TiebreakIdle /\ EloIdle /\ CompositeIdle /\ SeasonsIdle
    /\ ScheduleIdle /\ SorIdle /\ SystemsIdle /\ SeedingIdle
    /\ \E start_week \in FirstWeek..(LastWeek + 1) :
       \E responses \in {r \in [FirstWeek..LastWeek ->
                                   UNION {WeekResponses(w) :
                                             w \in FirstWeek..LastWeek}] :
                            \A w \in FirstWeek..LastWeek :
                               r[w] \in WeekResponses(w)} :
          fetch_args = <<[start_week |-> start_week, responses |-> responses,
                          fbs_teams |-> FbsTeams]>>
    /\ fetch_result = <<>>

NextFetch == fetch_season_games

SpecFetch == InitFetch /\ [][NextFetch]_vars

----------------------------------------------------------------------------
(* calculate_sor *)
(* Ratings and probabilities are counted in thousandths.  The model follows *)
(* the function up to the choice of the approximation and its parameters;  *)
(* the Normal and Binomial distribution functions of scipy and the final   *)
(* -log10 are not evaluated.                                               *)

MaxOpponents == 21

BaselineRating == 750
NormalThreshold == 20

\* 1 / (1 + 10 ** (-(0.75 - r) / 0.25)) for the opponent ratings of the model
win_prob(opp_rating) ==
    CASE opp_rating = 500 -> 909
      [] opp_rating = BaselineRating -> 500
      [] opp_rating = 1000 -> 91

RECURSIVE SeqSum(_)
SeqSum(q) == IF q = <<>> THEN 0 ELSE Head(q) + SeqSum(Tail(q))

calculate_sor(team_record, opponent_ratings) ==
    LET wins == team_record.wins
        total_games == wins + team_record.losses
        win_probs == [i \in DOMAIN opponent_ratings |->
                         win_prob(opponent_ratings[i])]
    IN  IF total_games = 0 THEN [method |-> "none"]
        ELSE IF Len(win_probs) > NormalThreshold
        THEN [method |-> "normal",
              mu |-> SeqSum(win_probs),
              variance |-> SeqSum([i \in DOMAIN win_probs |->
                                     (win_probs[i] * (Unit - win_probs[i]))
                                        \div Unit]),
              wins |-> wins]
        ELSE [method |-> "binomial",
              avg_prob |-> IF win_probs # <<>>
                           THEN SeqSum(win_probs) \div Len(win_probs)
                           ELSE Unit \div 2,
              k |-> wins - 1,
              n |-> total_games]

sor ==
    /\ sor_args # <<>>
    /\ sor_result = <<>>
    /\ sor_result' = <<calculate_sor(sor_args[1].team_record,
                                     sor_args[1].opponent_ratings)>>
    /\ UNCHANGED sor_args
    /\ UNCHANGED <<pipe_vars, tb_vars, elo_vars, cr_vars, ms_vars>>
    /\ UNCHANGED <<sch_vars, sys_vars, sa_vars, fetch_vars>>

\* n opponents, the first of them stronger or weaker than the baseline
OpponentRatings(n) ==
    {[i \in 1..n |-> IF i = 1 THEN first ELSE BaselineRating] :
        first \in {500, BaselineRating, 1000}}

InitSor ==
    /\ PipelineIdle /\ TiebreakIdle /\ EloIdle /\ CompositeIdle /\ SeasonsIdle
    /\ ScheduleIdle /\ SystemsIdle /\ SeedingIdle /\ FetchIdle
    /\ \E n \in 0..MaxOpponents :
       \E ratings \in OpponentRatings(n) :
       \E losses \in {0, 1} :
       \E wins \in {0, n - losses} \cap Nat :
          sor_args = <<[team_record |-> [wins |-> wins, losses |-> losses],
                        opponent_ratings |-> ratings]>>
    /\ sor_result = <<>>

NextSor == sor

SpecSor == InitSor /\ [][NextSor]_vars

----------------------------------------------------------------------------
(* calculate_composite_rankings: get_opponent_records and calculate_sos *)
(* A (wins, losses) record is the pair <<wins, losses>>; win percentages   *)
(* and the SOS score are counted in thousandths.                           *)

MaxLogGames == 3

OorWeight == 330

other_team(game, team) ==
    IF game.home_team = team THEN game.away_team ELSE game.home_team

head_to_head(g, team, opp) ==
    \/ g.home_team = team /\ g.away_team = opp
    \/ g.home_team = opp /\ g.away_team = team

get_team_record(games_df, team) ==
    LET tg == team_games(games_df, team)
        wins == Cardinality({i \in DOMAIN tg : WonBy(tg[i], team)})
    IN  <<wins, Len(tg) - wins>>

\* the record of opp appended to opponents_records for a game of team
opp_record(games_df, team, opp) ==
    LET opp_games == team_games(games_df, opp)
        opp_w == Cardinality({j \in DOMAIN opp_games :
                                 /\ ~head_to_head(opp_games[j], team, opp)
                                 /\ WonBy(opp_games[j], opp)})
        opp_l == Len(opp_games) - opp_w
    IN  <<opp_w, opp_l>>

\* the list appended to opponents_opp_records for a game of team
opp_opp_records(games_df, team, opp) ==
    LET opp_games == team_games(games_df, opp)
        kept == SelectSeq(opp_games,
                          LAMBDA gg : other_team(gg, opp) # team)
    IN  [j \in DOMAIN kept |->
            IF WonBy(kept[j], opp) THEN <<1, 0>> ELSE <<0, 1>>]

get_opponent_records(games_df, team) ==
    LET tg == team_games(games_df, team)
        opponents == [i \in DOMAIN tg |-> other_team(tg[i], team)]
    IN  [opponents |-> opponents,
         opponents_records |->
            [i \in DOMAIN tg |-> opp_record(games_df, team, opponents[i])],
         opponents_opp_records |->
            [i \in DOMAIN tg |->
                opp_opp_records(games_df, team, opponents[i])]]

\* np.mean of a non-empty list of thousandths
Mean(q) == SeqSum(q) \div Len(q)

calculate_sos(opponents_records, opponents_opp_records, include_oor, oor_weight) ==
    LET pct(record) == (Unit * record[1]) \div (record[1] + record[2])
        opp_win_pcts ==
            [i \in DOMAIN opponents_records |->
                IF opponents_records[i][1] + opponents_records[i][2] > 0
                THEN pct(opponents_records[i])
                ELSE Unit \div 2]
        avg_opp_win_pct == Mean(opp_win_pcts)
        opp_oor_pcts(opp_opps) ==
            LET counted == SelectSeq(opp_opps,
                                     LAMBDA record : record[1] + record[2] > 0)
            IN  [j \in DOMAIN counted |-> pct(counted[j])]
        with_pcts == SelectSeq(opponents_opp_records,
                               LAMBDA opp_opps : opp_oor_pcts(opp_opps) # <<>>)
        oor_win_pcts ==
            [i \in DOMAIN with_pcts |-> Mean(opp_oor_pcts(with_pcts[i]))]
        avg_oor_win_pct ==
            IF oor_win_pcts # <<>> THEN Mean(oor_win_pcts) ELSE Unit \div 2
    IN  IF opponents_records = <<>> THEN 0
        ELSE IF ~include_oor \/ opponents_opp_records = <<>>
        THEN avg_opp_win_pct
        ELSE ((Unit - oor_weight) * avg_opp_win_pct
                 + oor_weight * avg_oor_win_pct) \div Unit

\* one pass of the loop over the teams: the records of one team and its SOS
sos_scores ==
    /\ sch_args # <<>>
    /\ sch_result = <<>>
    /\ \E r \in {get_opponent_records(sch_args[1].games_df,
                                      sch_args[1].team)} :
          sch_result' =
             <<[opponents |-> r.opponents,
                opp_records |-> r.opponents_records,
                opp_opp_records |-> r.opponents_opp_records,
                sos |-> calculate_sos(r.opponents_records,
                                      r.opponents_opp_records,
                                      TRUE, OorWeight)]>>
    /\ UNCHANGED sch_args
    /\ UNCHANGED <<pipe_vars, tb_vars, elo_vars, cr_vars, ms_vars>>
    /\ UNCHANGED <<sor_vars, sys_vars, sa_vars, fetch_vars>>

\* game logs over four teams: wins of either side and a tie
LogGames ==
    {[home_team |-> pair[1], away_team |-> pair[2],
      home_score |-> score[1], away_score |-> score[2]] :
        pair \in {<<"A", "B">>, <<"B", "C">>, <<"C", "D">>, <<"C", "A">>},
        score \in {<<20, 10>>, <<10, 20>>}}
    \cup {[home_team |-> "B", away_team |-> "A",
           home_score |-> 17, away_score |-> 17]}

LogTeams(games_df) ==
    {games_df[i].home_team : i \in DOMAIN games_df}
        \cup {games_df[i].away_team : i \in DOMAIN games_df}

InitSchedule ==
    /\ PipelineIdle /\ TiebreakIdle /\ EloIdle /\ CompositeIdle /\ SeasonsIdle
    /\ SorIdle /\ SystemsIdle /\ SeedingIdle /\ FetchIdle
    /\ \E games_df \in SeqsUpTo(LogGames, MaxLogGames) \ {<<>>} :
       \E team \in LogTeams(games_df) :
          sch_args = <<[games_df |-> games_df, team |-> team]>>
    /\ sch_result = <<>>

NextSchedule == sos_scores

SpecSchedule == InitSchedule /\ [][NextSchedule]_vars

----------------------------------------------------------------------------
(* ColleyMatrix and MasseyRatings: build_system and solve *)
(* Matrices are indexed by team_idx, counted from 1.  The Colley vector b  *)
(* is counted in halves and the Massey margins and vector p in hundredths  *)
(* of a point.  linalg.solve is followed up to whether the matrix is       *)
(* singular (the except branch returning {}); the ratings themselves are   *)
(* not computed.                                                           *)

MaxSysGames == 2

MasseyMovCap == 2800
MasseyHfa == 375

SysTeamOrder == <<"A", "B", "C">>

\* sorted(set(home_team) | set(away_team))
sys_teams(games) ==
    SelectSeq(SysTeamOrder, LAMBDA team : team \in LogTeams(games))

team_idx(teams, team) == CHOOSE i \in DOMAIN teams : teams[i] = team

zeros(n) == [i \in 1..n |-> [j \in 1..n |-> 0]]

\* the four updates of C for one game
game_into_C(C, home_idx, away_idx) ==
    LET C1 == [C EXCEPT ![home_idx][home_idx] = @ + 1]
        C2 == [C1 EXCEPT ![away_idx][away_idx] = @ + 1]
        C3 == [C2 EXCEPT ![home_idx][away_idx] = @ - 1]
    IN  [C3 EXCEPT ![away_idx][home_idx] = @ - 1]

fill_diagonal(C) == [i \in DOMAIN C |-> [C[i] EXCEPT ![i] = @ + 2]]

RECURSIVE colley_loop(_, _)
colley_loop(games, teams) ==
    IF games = <<>>
    THEN [C |-> zeros(Len(teams)),
          wins |-> [i \in DOMAIN teams |-> 0],
          losses |-> [i \in DOMAIN teams |-> 0]]
    ELSE LET before == colley_loop(SubSeq(games, 1, Len(games) - 1), teams)
             game == games[Len(games)]
             home_idx == team_idx(teams, game.home_team)
             away_idx == team_idx(teams, game.away_team)
             winner == IF game.home_score > game.away_score
                       THEN home_idx ELSE away_idx
             loser == IF game.home_score > game.away_score
                      THEN away_idx ELSE home_idx
         IN  [C |-> game_into_C(before.C, home_idx, away_idx),
              wins |-> [before.wins EXCEPT ![winner] = @ + 1],
              losses |-> [before.losses EXCEPT ![loser] = @ + 1]]

\* b in halves: 2 * (1 + 0.5 * (wins - losses))
colley_b_flat(loop) == [i \in DOMAIN loop.wins |-> 2]

colley_b(loop) ==
    [i \in DOMAIN loop.wins |-> 2 + (loop.wins[i] - loop.losses[i])]

colley_build_system(games) ==
    LET teams == sys_teams(games)
        loop == colley_loop(games, teams)
    IN  [C |-> fill_diagonal(loop.C), b |-> colley_b(loop)]

\* apply_adjustments: cap applied before the home-field adjustment
adj_margin_capfirst(game) ==
    LET capped == Clip(100 * (game.home_score - game.away_score),
                       -MasseyMovCap, MasseyMovCap)
    IN  IF ~game.neutral_site THEN capped - MasseyHfa ELSE capped

\* apply_adjustments: the adj_margin of one game
adj_margin(game) ==
    LET margin == 100 * (game.home_score - game.away_score)
        adjusted == IF ~game.neutral_site THEN margin - MasseyHfa ELSE margin
    IN  Clip(adjusted, -MasseyMovCap, MasseyMovCap)

RECURSIVE massey_loop(_, _)
massey_loop(games, teams) ==
    IF games = <<>>
    THEN [C |-> zeros(Len(teams)), p |-> [i \in DOMAIN teams |-> 0]]
    ELSE LET before == massey_loop(SubSeq(games, 1, Len(games) - 1), teams)
             game == games[Len(games)]
             home_idx == team_idx(teams, game.home_team)
             away_idx == team_idx(teams, game.away_team)
             margin == adj_margin(game)
             p1 == [before.p EXCEPT ![home_idx] = @ + margin]
         IN  [C |-> game_into_C(before.C, home_idx, away_idx),
              p |-> [p1 EXCEPT ![away_idx] = @ - margin]]

\* build_system without np.fill_diagonal(C, C.diagonal() + 2)
massey_build_system_unfilled(games) ==
    LET loop == massey_loop(games, sys_teams(games))
    IN  [C |-> loop.C, p |-> loop.p]

massey_build_system(games) ==
    LET loop == massey_loop(games, sys_teams(games))
    IN  [C |-> fill_diagonal(loop.C), p |-> loop.p]

\* the determinant of an n x n matrix, by expansion along the first row
Minor(M, n, col) ==
    [i \in 1..(n - 1) |->
        [j \in 1..(n - 1) |-> M[i + 1][IF j < col THEN j ELSE j + 1]]]

RECURSIVE Det(_, _)
Det(M, n) ==
    IF n = 0 THEN 1
    ELSE IF n = 1 THEN M[1][1]
    ELSE LET term(col) == (IF col % 2 = 1 THEN 1 ELSE -1)
                             * M[1][col] * Det(Minor(M, n, col), n - 1)
         IN  SeqSum([col \in 1..n |-> term(col)])

\* linalg.solve raises for a singular matrix, and solve() then returns {}
Solved(C) == Det(C, Len(C)) # 0

colley_solve ==
    /\ sys_games # <<>>
    /\ sys_colley = <<>>
    /\ \E sys \in {colley_build_system(sys_games)} :
          sys_colley' = <<[C |-> sys.C, b |-> sys.b, solved |-> Solved(sys.C)]>>
    /\ UNCHANGED <<sys_games, sys_massey>>
    /\ UNCHANGED <<pipe_vars, tb_vars, elo_vars, cr_vars, ms_vars>>
    /\ UNCHANGED <<sch_vars, sor_vars, sa_vars, fetch_vars>>

massey_solve ==
    /\ sys_games # <<>>
    /\ sys_massey = <<>>
    /\ \E sys \in {massey_build_system(sys_games)} :
          sys_massey' = <<[C |-> sys.C, p |-> sys.p, solved |-> Solved(sys.C)]>>
    /\ UNCHANGED <<sys_games, sys_colley>>
    /\ UNCHANGED <<pipe_vars, tb_vars, elo_vars, cr_vars, ms_vars>>
    /\ UNCHANGED <<sch_vars, sor_vars, sa_vars, fetch_vars>>

\* games between distinct teams: a win of either side within and beyond the
\* cap, and a tie, at home and at a neutral site
SysGames ==
    {[home_team |-> pair[1], away_team |-> pair[2],
      home_score |-> score[1], away_score |-> score[2],
      neutral_site |-> neutral] :
        pair \in {<<"A", "B">>, <<"B", "A">>, <<"B", "C">>, <<"C", "A">>},
        score \in {<<20, 10>>, <<17, 17>>, <<35, 0>>, <<0, 35>>},
        neutral \in BOOLEAN}

InitSystems ==
    /\ PipelineIdle /\ TiebreakIdle /\ EloIdle /\ CompositeIdle /\ SeasonsIdle
    /\ ScheduleIdle /\ SorIdle /\ SeedingIdle /\ FetchIdle
    /\ sys_games \in SeqsUpTo(SysGames, MaxSysGames) \ {<<>>}
    /\ sys_colley = <<>>
    /\ sys_massey = <<>>

NextSystems == colley_solve \/ massey_solve

SpecSystems == InitSystems /\ [][NextSystems]_vars

----------------------------------------------------------------------------
(* Vocabulary of the properties *)

Selected == pc \in {"seed", "bracket", "done", "failed"}
Seeded == pc \in {"bracket", "done", "failed"}

\* the field size the caller asked for
Total == n_auto_bids + n_at_large

Rows(seq) == {seq[i] : i \in DOMAIN seq}

\* the rows of the input table whose champion flag is set
Flagged == {r \in Rows(rankings_df) : r.conf_champ = ChampLabel}

\* how many rows of a set are ranked better than row r
BetterCount(set, r) == Cardinality({x \in set : x.rank < r.rank})

Min(a, b) == IF a < b THEN a ELSE b

\* the team of the seeded table that holds seed s (0 when no row does)
HolderOf(s) ==
    IF \E i \in DOMAIN seeded_df : seeded_df[i].seed = s
    THEN seeded_df[CHOOSE i \in DOMAIN seeded_df : seeded_df[i].seed = s].team
    ELSE 0

----------------------------------------------------------------------------
(* C1: from a table of at least n_auto_bids + n_at_large distinct teams,   *)
(* select_playoff_field returns exactly n_auto_bids + n_at_large teams;    *)
(* with fewer champions than n_auto_bids the auto bids shrink to the       *)
(* champion count and the at-large bids grow by the same amount.           *)
C1_FieldSize ==
    (Selected /\ Len(rankings_df) >= Total) =>
        /\ Len(playoff_teams) = Total
        /\ Cardinality(Names(playoff_teams)) = Total
        /\ Cardinality(Flagged) < n_auto_bids =>
              /\ Len(auto_bids) = Cardinality(Flagged)
              /\ Len(at_large_bids) =
                    n_at_large + (n_auto_bids - Cardinality(Flagged))

\* a full field is selected although fewer champions exist than auto bids
C1_Witness ==
    /\ Selected
    /\ Len(rankings_df) >= Total
    /\ Cardinality(Flagged) < n_auto_bids
    /\ Len(at_large_bids) > n_at_large
    /\ Len(playoff_teams) = Total

(* C2: auto_bids is exactly the min(n_auto_bids, #champions) best-ranked   *)
(* flagged teams, and every auto bid is in playoff_teams whatever its rank.*)
C2_AutoBids ==
    Selected =>
        /\ Len(auto_bids) = Min(n_auto_bids, Cardinality(Flagged))
        /\ Rows(auto_bids) =
              {r \in Flagged : BetterCount(Flagged, r) < n_auto_bids}
        /\ Names(auto_bids) \subseteq Names(playoff_teams)

\* an auto bid ranked below the field size sits in the field, while a
\* flagged champion was left out of the auto bids
C2_Witness ==
    /\ Selected
    /\ Cardinality(Flagged) > n_auto_bids
    /\ \E i \in DOMAIN auto_bids :
          /\ auto_bids[i].rank > Total
          /\ auto_bids[i].team \in Names(playoff_teams)

(* C3: at_large_bids is exactly the best-ranked teams that are not auto    *)
(* bids, as many as the at-large count in force; no non-auto team outside  *)
(* the field is ranked better than an at-large team inside it.             *)
C3_AtLarge ==
    Selected =>
        LET elig == {r \in Rows(rankings_df) : r.team \notin Names(auto_bids)}
        IN  /\ Rows(at_large_bids) =
                  {r \in elig : BetterCount(elig, r) < Total - Len(auto_bids)}
            /\ Cardinality(Rows(at_large_bids)) = Len(at_large_bids)
            /\ \A r \in elig :
                  r.team \notin Names(playoff_teams) =>
                      \A i \in DOMAIN at_large_bids :
                          at_large_bids[i].rank < r.rank

\* a flagged champion that was not taken as auto bid holds an at-large bid,
\* and some team is left outside the field
C3_Witness ==
    /\ Selected
    /\ \E i \in DOMAIN at_large_bids : at_large_bids[i].conf_champ = ChampLabel
    /\ Len(rankings_df) > Len(playoff_teams)

(* C4: auto_bids and at_large_bids share no team, playoff_teams is their   *)
(* union in ascending rank order, also when a displaced team is recorded.  *)
C4_Partition ==
    Selected =>
        /\ Names(auto_bids) \cap Names(at_large_bids) = {}
        /\ Rows(playoff_teams) = Rows(auto_bids) \cup Rows(at_large_bids)
        /\ Len(playoff_teams) = Len(auto_bids) + Len(at_large_bids)
        /\ \A i \in 1..(Len(playoff_teams) - 1) :
              playoff_teams[i].rank < playoff_teams[i + 1].rank

\* a displacement was recorded for a pulled-in champion
C4_Witness ==
    /\ Selected
    /\ champ_pulled_in
    /\ displaced_team # <<>>
    /\ Len(playoff_teams) = Total

(* C5: champ_pulled_in is true iff some auto-bid champion is ranked beyond *)
(* the requested field size; champions ranked {1,3,4,9,15} with 5 auto and *)
(* 7 at-large bids give champ_pulled_in and a recorded displaced team.     *)
C5_PulledIn ==
    Selected =>
        /\ champ_pulled_in <=>
              \E r \in Flagged : /\ BetterCount(Flagged, r) < n_auto_bids
                                 /\ r.rank > Total
        /\ ( /\ {r.rank : r \in Flagged} = {1, 3, 4, 9, 15}
             /\ n_auto_bids = 5
             /\ n_at_large = 7 )
           => (champ_pulled_in /\ displaced_team # <<>>)

\* the example of the claim: the champion ranked 15 is the last auto bid
C5_Witness ==
    /\ Selected
    /\ {r.rank : r \in Flagged} = {1, 3, 4, 9, 15}
    /\ n_auto_bids = 5
    /\ n_at_large = 7
    /\ champ_pulled_in
    /\ displaced_team # <<>>

(* C6: a recorded displaced_team is the best-ranked team that is not a     *)
(* member of playoff_teams.                                                *)
C6_DisplacedOutside ==
    (Selected /\ displaced_team # <<>>) =>
        /\ displaced_team[1].team \notin Names(playoff_teams)
        /\ \A r \in Rows(rankings_df) :
              r.team \notin Names(playoff_teams) =>
                  displaced_team[1].rank <= r.rank

(* C7: with k = min(4, auto-bid champions in the field), seeds 1..k go to  *)
(* the k best-ranked auto-bid champions in rank order with is_bye, and the *)
(* other teams take the following seeds in ascending rank order without.   *)
C7_Seeding ==
    Seeded =>
        LET field == Rows(playoff_teams)
            champs == {r \in field : r.team \in Names(auto_bids)}
            k == Min(4, Cardinality(champs))
            byes == {r \in champs : BetterCount(champs, r) < k}
            rest == field \ byes
        IN  /\ Len(seeded_df) = Len(playoff_teams)
            /\ \A i \in DOMAIN seeded_df :
                  /\ seeded_df[i].seed = i
                  /\ IF i <= k
                     THEN /\ seeded_df[i].is_bye
                          /\ \E r \in byes :
                                /\ r.team = seeded_df[i].team
                                /\ r.rank = seeded_df[i].rank
                                /\ BetterCount(byes, r) = i - 1
                     ELSE /\ ~seeded_df[i].is_bye
                          /\ \E r \in rest :
                                /\ r.team = seeded_df[i].team
                                /\ r.rank = seeded_df[i].rank
                                /\ BetterCount(rest, r) = i - k - 1

\* a 12-team field with five auto bids: the fifth champion is seeded by rank
\* among the other teams, below a team that is no champion
C7_Witness ==
    /\ Seeded
    /\ Len(seeded_df) = 12
    /\ Len(auto_bids) = 5
    /\ \A i \in 1..4 : seeded_df[i].is_bye
    /\ seeded_df[5].team \notin Names(auto_bids)
    /\ \E i \in 6..12 : seeded_df[i].team \in Names(auto_bids)

(* C8: in a seeded 12-team field the teams placed directly into the        *)
(* quarterfinal slots are exactly the teams with is_bye = true, and every  *)
(* first-round participant has is_bye = false.                             *)
C8_ByesAreTopFour ==
    (pc = "done" /\ Len(playoff_teams) = 12) =>
        /\ {all_rounds.quarterfinals[i].team_high :
                i \in DOMAIN all_rounds.quarterfinals}
           = {seeded_df[i].team : i \in {j \in DOMAIN seeded_df :
                                            seeded_df[j].is_bye}}
        /\ \A g \in DOMAIN first_round : \A i \in DOMAIN seeded_df :
              seeded_df[i].team \in {first_round[g].team_high,
                                     first_round[g].team_low}
                  => ~seeded_df[i].is_bye

(* C9: the bracket has four first-round games pairing seeds (5,12),        *)
(* (6,11), (7,10), (8,9) in that order, each seed 5..12 in exactly one     *)
(* game, hosted by the team holding the lower seed number; the bracket is  *)
(* built whenever the seeded table holds the seeds 1..12.                  *)
C9_FirstRound ==
    /\ pc = "failed" => \E s \in 1..12 : HolderOf(s) = 0
    /\ pc = "done" =>
        /\ [i \in DOMAIN first_round |->
               <<first_round[i].seed_high, first_round[i].seed_low>>]
           = << <<5, 12>>, <<6, 11>>, <<7, 10>>, <<8, 9>> >>
        /\ \A s \in 5..12 :
              Cardinality({i \in DOMAIN first_round :
                  s \in {first_round[i].seed_high, first_round[i].seed_low}}) = 1
        /\ \A i \in DOMAIN first_round :
              /\ first_round[i].team_high = HolderOf(first_round[i].seed_high)
              /\ first_round[i].team_low = HolderOf(first_round[i].seed_low)
              /\ first_round[i].host_team = <<HolderOf(4 + i)>>
        /\ all_rounds.first_round = first_round

\* a bracket in which a pulled-in champion travels as seed 12
C9_Witness ==
    /\ pc = "done"
    /\ Len(first_round) = 4
    /\ first_round[1].team_low \in Names(auto_bids)
    /\ first_round[1].host_team = <<seeded_df[5].team>>

\* the first-round pairing a winner label of the quarterfinals refers to
FeederPair(label) ==
    CASE label = "Winner 8/9" -> <<8, 9>>
      [] label = "Winner 7/10" -> <<7, 10>>
      [] label = "Winner 6/11" -> <<6, 11>>
      [] label = "Winner 5/12" -> <<5, 12>>
      [] OTHER -> <<0, 0>>

(* C10: four quarterfinal slots without reseeding: the team seeded 1 meets *)
(* the winner of 8/9, seed 2 the winner of 7/10, seed 3 the winner of 6/11 *)
(* and seed 4 the winner of 5/12; each first-round game feeds exactly one  *)
(* quarterfinal.                                                           *)
C10_Quarterfinals ==
    pc = "done" =>
        LET qf == all_rounds.quarterfinals
        IN  /\ Len(qf) = 4
            /\ \A i \in 1..4 :
                  /\ qf[i].seed_high = i
                  /\ qf[i].team_high = HolderOf(i)
                  /\ FeederPair(qf[i].team_low) = <<9 - i, 8 + i>>
            /\ \A g \in DOMAIN first_round :
                  Cardinality({i \in DOMAIN qf :
                      FeederPair(qf[i].team_low)
                        = <<first_round[g].seed_high, first_round[g].seed_low>>}) = 1

\* the slots are filled although seed 1 is not the best-ranked team
C10_Witness ==
    /\ pc = "done"
    /\ Len(all_rounds.quarterfinals) = 4
    /\ all_rounds.quarterfinals[1].team_low = "Winner 8/9"
    /\ \E i \in DOMAIN seeded_df :
          /\ seeded_df[i].seed = 1
          /\ seeded_df[i].rank > 1

(* C11: if a seed in 1..12 is absent from the seeded table,                *)
(* create_bracket_matchups fails with an error and returns nothing: no     *)
(* first-round list, no rounds, no placeholder participant.                *)
C11_MissingSeedFails ==
    (pc \in {"done", "failed"} /\ \E s \in 1..12 : HolderOf(s) = 0) =>
        /\ pc = "failed"
        /\ error = "IndexError"
        /\ first_round = <<>>
        /\ all_rounds = <<>>

\* an 11-team field was seeded, seed 12 is absent and the call has failed
C11_Witness ==
    /\ pc = "failed"
    /\ Len(seeded_df) = 11
    /\ HolderOf(12) = 0
    /\ HolderOf(11) # 0
    /\ error = "IndexError"

(* C19 as claimed: a 'Yes' champion label appears only on rows with        *)
(* is_bye = true.                                                          *)
C19_LabelOnlyOnByes ==
    Seeded => \A i \in DOMAIN seeded_df :
                 seeded_df[i].conf_champ = ChampLabel => seeded_df[i].is_bye

(* C19 as amended: the label is blanked to 'No' on every row whose team is *)
(* not an auto bid; an auto-bid champion keeps its label, with or without  *)
(* a bye.                                                                  *)
C19_LabelOnlyOnAutoBids ==
    Seeded => \A i \in DOMAIN seeded_df :
                 /\ seeded_df[i].team \notin Names(auto_bids)
                       => seeded_df[i].conf_champ = NoChampLabel
                 /\ seeded_df[i].team \in Names(auto_bids)
                       => seeded_df[i].conf_champ = ChampLabel

\* the fifth auto bid keeps its label without a bye, next to rows of teams
\* that hold at-large bids
C19_Witness ==
    /\ Seeded
    /\ \E i \in DOMAIN seeded_df :
          /\ ~seeded_df[i].is_bye
          /\ seeded_df[i].conf_champ = ChampLabel
          /\ seeded_df[i].team \in Names(auto_bids)
    /\ \E i \in DOMAIN seeded_df :
          seeded_df[i].team \notin Names(auto_bids)

----------------------------------------------------------------------------
(* Vocabulary of the tiebreaker properties *)

TbDone == tb_result # <<>>
TbScoreA == tb_args.team_a.composite_score
TbScoreB == tb_args.team_b.composite_score
TbWithinTolerance == Abs(TbScoreA - TbScoreB) < tb_args.tolerance

\* positions in the game log at which the two teams meet
TbMeetings ==
    {i \in DOMAIN tb_args.games_df :
        {tb_args.games_df[i].home_team, tb_args.games_df[i].away_team}
            = {"A", "B"}}

\* meetings that one of the two teams won
TbDecisive ==
    {i \in TbMeetings :
        tb_args.games_df[i].home_score # tb_args.games_df[i].away_score}

\* the team with more points in game i of the log
TbVictor(i) ==
    IF tb_args.games_df[i].home_score > tb_args.games_df[i].away_score
    THEN tb_args.games_df[i].home_team ELSE tb_args.games_df[i].away_team

TbRank(map, team) == IF team \in DOMAIN map THEN map[team] ELSE 999

(* C12: when the composite scores differ by at least the tolerance, the    *)
(* team with the higher score is returned with a 'Composite score          *)
(* difference' reason, whatever the game log and the rank maps hold.       *)
C12_ScoreDecides ==
    (TbDone /\ ~TbWithinTolerance) =>
        /\ tb_result[1] = IF TbScoreA > TbScoreB THEN "A" ELSE "B"
        /\ tb_result[2][1] = "Composite score difference"

\* the scores differ by exactly the tolerance and the lower-scored team won
\* the head-to-head game and has the better ranks, yet the higher score wins
C12_Witness ==
    /\ TbDone
    /\ TbScoreB - TbScoreA = tb_args.tolerance
    /\ TbDecisive # {} /\ \A i \in TbDecisive : TbVictor(i) = "A"
    /\ TbRank(tb_args.sos_ranks, "A") < TbRank(tb_args.sos_ranks, "B")
    /\ tb_result[1] = "B"

(* C13: when the scores are within tolerance and the teams met, the winner *)
(* is the winner of the first head-to-head game that was not level, with a *)
(* 'Head-to-head' reason.                                                  *)
C13_FirstDecisiveMeeting ==
    (TbDone /\ TbWithinTolerance /\ TbDecisive # {}) =>
        /\ tb_result[1] =
              TbVictor(CHOOSE i \in TbDecisive : \A j \in TbDecisive : i <= j)
        /\ tb_result[2][1] = "Head-to-head"

(* C14: within tolerance and without a meeting, the lower SOS rank wins;   *)
(* on equal SOS ranks the lower SOR rank wins; on equal SOR ranks too the  *)
(* higher composite score wins; a team missing from a map has rank 999.    *)
C14_RankCascade ==
    (TbDone /\ TbWithinTolerance /\ TbMeetings = {}) =>
        LET sos_a == TbRank(tb_args.sos_ranks, "A")
            sos_b == TbRank(tb_args.sos_ranks, "B")
            sor_a == TbRank(tb_args.sor_ranks, "A")
            sor_b == TbRank(tb_args.sor_ranks, "B")
        IN  /\ sos_a # sos_b =>
                  /\ tb_result[1] = IF sos_a < sos_b THEN "A" ELSE "B"
                  /\ tb_result[2][1] = "Strength of Schedule"
            /\ (sos_a = sos_b /\ sor_a # sor_b) =>
                  /\ tb_result[1] = IF sor_a < sor_b THEN "A" ELSE "B"
                  /\ tb_result[2][1] = "Strength of Record"
            /\ (sos_a = sos_b /\ sor_a = sor_b) =>
                  /\ tb_result[2][1] = "Composite score (marginal difference)"
                  /\ TbScoreA > TbScoreB => tb_result[1] = "A"
                  /\ TbScoreB > TbScoreA => tb_result[1] = "B"

\* team A is missing from the SOS map and beats rank 1000 as rank 999,
\* although the SOR ranks and the composite score favour team B
C14_Witness ==
    /\ TbDone /\ TbWithinTolerance /\ TbMeetings = {}
    /\ "A" \notin DOMAIN tb_args.sos_ranks
    /\ TbRank(tb_args.sos_ranks, "B") = 1000
    /\ TbRank(tb_args.sor_ranks, "A") > TbRank(tb_args.sor_ranks, "B")
    /\ TbScoreB > TbScoreA
    /\ tb_result[1] = "A"
    /\ tb_result[2][1] = "Strength of Schedule"

----------------------------------------------------------------------------
(* C16: every run of process_season over the same ordered game sequence    *)
(* returns the same rating of every team, on a fresh instance and on an    *)
(* instance that holds ratings of earlier runs and updates; the rated      *)
(* teams are the teams of the season.                                      *)
C16_Deterministic ==
    \A i \in DOMAIN elo_runs :
        /\ DOMAIN elo_runs[i].result = SeasonTeams(elo_games)
        /\ \A j \in DOMAIN elo_runs : elo_runs[i].result = elo_runs[j].result

\* a run on a fresh instance and a run on the same instance after a direct
\* update changed its ratings, with a season that moves the ratings
C16_Witness ==
    /\ Len(elo_runs) = 2
    /\ elo_runs[1].before = <<>>
    /\ elo_runs[2].before # <<>>
    /\ elo_runs[2].before # elo_runs[1].result
    /\ \E team \in DOMAIN elo_runs[2].result :
          elo_runs[2].result[team] # EloBase

(* C20: after update_game for a neutral-site game with unequal scores      *)
(* between two teams of equal rating, the winner's rating is strictly      *)
(* higher and the loser's strictly lower than before, for a home winner    *)
(* and for an away winner.                                                 *)
C20_WinnerGains ==
    \A i \in DOMAIN elo_last :
        LET game == elo_last[i].game
            before == elo_last[i].before
            after == elo_last[i].after
            home_won == game.home_score > game.away_score
            winner == IF home_won THEN game.home_team ELSE game.away_team
            loser == IF home_won THEN game.away_team ELSE game.home_team
        IN  (/\ game.neutral_site
             /\ game.home_score # game.away_score
             /\ before[game.home_team] = before[game.away_team]) =>
                /\ after[winner] > before[winner]
                /\ after[loser] < before[loser]

----------------------------------------------------------------------------
(* Vocabulary of the composite ranking properties *)

CrDone == cr_result # <<>>
CrTeams == SeasonTeams(cr_args[1].games_df)
CrTable == cr_result[1].df

\* the table has one row per team of the game log, ranked 1..N without gaps
\* or duplicates
CrComplete ==
    /\ Len(CrTable) = Cardinality(CrTeams)
    /\ {CrTable[i].team : i \in DOMAIN CrTable} = CrTeams
    /\ {CrTable[i].rank : i \in DOMAIN CrTable} = 1..Cardinality(CrTeams)
    /\ \A i, j \in DOMAIN CrTable :
          i # j => /\ CrTable[i].rank # CrTable[j].rank
                   /\ CrTable[i].team # CrTable[j].team

(* C15: the rank column of calculate_composite_rankings is a permutation   *)
(* of 1..N, also when composite scores tie, and a team with a smaller rank *)
(* number never has a smaller composite_score than a team with a larger    *)
(* one.                                                                    *)
C15_RankPermutation ==
    CrDone =>
        /\ CrComplete
        /\ \A i, j \in DOMAIN CrTable :
              CrTable[i].rank < CrTable[j].rank =>
                 CrTable[i].composite_score >= CrTable[j].composite_score

\* three teams are ranked and two of them tie on composite_score
C15_Witness ==
    /\ CrDone
    /\ Len(CrTable) = 3
    /\ \E i, j \in DOMAIN CrTable :
          /\ i # j
          /\ CrTable[i].composite_score = CrTable[j].composite_score
    /\ \E i, j \in DOMAIN CrTable :
          CrTable[i].composite_score > CrTable[j].composite_score

(* C17: when the Colley or the Massey solve returned an empty rating map,  *)
(* calculate_composite_rankings still returns a table that ranks all N     *)
(* teams, and the normalized value of that component is 0 for every team.  *)
C17_SolveFailureIsZero ==
    CrDone =>
        /\ cr_args[1].colley_ratings = <<>> =>
              /\ CrComplete
              /\ \A t \in CrTeams : cr_result[1].colley_norm[t] = 0
              /\ \A i \in DOMAIN CrTable :
                    /\ CrTable[i].colley_rating = 0
                    /\ CrTable[i].resume_score = (4 * CrTable[i].win_pct) \div 10
        /\ cr_args[1].massey_ratings = <<>> =>
              /\ CrComplete
              /\ \A t \in CrTeams : cr_result[1].massey_norm[t] = 0
              /\ \A i \in DOMAIN CrTable : CrTable[i].massey_rating = 0

\* the Colley solve failed, the Massey solve did not, and three teams with
\* different composite scores are ranked
C17_Witness ==
    /\ CrDone
    /\ cr_args[1].colley_ratings = <<>>
    /\ cr_args[1].massey_ratings # <<>>
    /\ Len(CrTable) = 3
    /\ \E t \in CrTeams : cr_result[1].massey_norm[t] # 0
    /\ \A i, j \in DOMAIN CrTable :
          i # j => CrTable[i].composite_score # CrTable[j].composite_score

----------------------------------------------------------------------------
(* Vocabulary of the multi-season properties *)

\* the years among the first n whose season returned its metrics, in order
RECURSIVE MsOkYears(_)
MsOkYears(n) ==
    IF n = 0 THEN <<>>
    ELSE IF ms_outcomes[n] = "ok" THEN Append(MsOkYears(n - 1), ms_years[n])
    ELSE MsOkYears(n - 1)

MsRowsPerSeason == IF ms_include THEN 4 ELSE 1

(* C18: run_multiple_seasons_backtest handles every year in list order; a  *)
(* season that raises or returns an error result adds no rows and stops no *)
(* later season, and the call returns without raising.                     *)
C18_ContinuesPastFailures ==
    /\ ms_pos = Len(ms_outcomes)
    /\ Len(all_results) = Len(MsOkYears(ms_pos))
    /\ \A i \in DOMAIN all_results : all_results[i].year = MsOkYears(ms_pos)[i]
    /\ ms_return # <<>> =>
          /\ ~ms_return[1].raised
          /\ ms_pos = Len(ms_years)
          /\ LET df == ms_return[1].df
                 composite ==
                     SelectSeq(df, LAMBDA row : row.model = "composite")
             IN  /\ Len(df) = MsRowsPerSeason * Len(MsOkYears(ms_pos))
                 /\ Len(composite) = Len(MsOkYears(ms_pos))
                 /\ \A i \in DOMAIN composite :
                       composite[i].year = MsOkYears(ms_pos)[i]

\* the first season raised, the second returned an error result, the third
\* was reported
C18_Witness ==
    /\ ms_return # <<>>
    /\ Len(ms_years) = 3
    /\ ms_outcomes = <<"raises", "error", "ok">>
    /\ ms_include
    /\ Len(ms_return[1].df) = 4
    /\ ms_return[1].df[1].year = ms_years[3]

----------------------------------------------------------------------------
(* C28: with the default 5 auto and 7 at-large bids, a pool of at least 12 *)
(* teams with any number of flagged champions runs through selection,      *)
(* seeding and bracket construction without error; the seeded table gives  *)
(* each seed 1..12 to one team and each selected team one seed.            *)
C28_PipelineCompletes ==
    n_auto_bids = DefaultAutoBids =>
        /\ pc # "failed"
        /\ error = "none"
        /\ Seeded =>
              /\ Len(seeded_df) = 12
              /\ \A s \in 1..12 :
                    Cardinality({i \in DOMAIN seeded_df :
                                    seeded_df[i].seed = s}) = 1
              /\ \A t \in Names(playoff_teams) :
                    Cardinality({i \in DOMAIN seeded_df :
                                    seeded_df[i].team = t}) = 1
              /\ \A i \in DOMAIN seeded_df :
                    seeded_df[i].team \in Names(playoff_teams)
        /\ pc = "done" => first_round # <<>> /\ all_rounds # <<>>

\* the bracket is built for a pool without any flagged champion
C28_Witness ==
    /\ pc = "done"
    /\ n_auto_bids = DefaultAutoBids
    /\ Flagged = {}
    /\ Len(rankings_df) > 12
    /\ Len(seeded_df) = 12
    /\ first_round # <<>>

----------------------------------------------------------------------------
(* C27: apply_tiebreaker(A, B, ...) and apply_tiebreaker(B, A, ...) return *)
(* the same winning team for every game log, rank maps and scores, also    *)
(* when the composite scores and the SOS and SOR ranks are equal.          *)
C27_OrderIndependent ==
    (tb_result # <<>> /\ tb_swapped # <<>>) => tb_result[1] = tb_swapped[1]

----------------------------------------------------------------------------
(* C29: calculate_seeding_accuracy returns the keys exact_match,           *)
(* within_one, mae and rmse whether or not the seed maps share a team, and *)
(* run_season_backtest reads them without a KeyError.                      *)
C29_SameMetricKeys ==
    /\ \A i \in DOMAIN sa_result : DOMAIN sa_result[i] = MetricsRead
    /\ sa_status # "KeyError"

----------------------------------------------------------------------------
(* Vocabulary of the fetch property *)

\* the games the provider reported with status 200 for weeks start_week..15
RECURSIVE FetchReported(_)
FetchReported(week) ==
    IF week > LastWeek THEN <<>>
    ELSE LET r == fetch_args[1].responses[week]
         IN  (IF r.status = "200" THEN r.games ELSE <<>>)
                \o FetchReported(week + 1)

\* both teams are FBS teams and both scores are present
FetchComplete(game) ==
    /\ game.home_team[1] \in fetch_args[1].fbs_teams
    /\ game.away_team[1] \in fetch_args[1].fbs_teams
    /\ game.home_points # None
    /\ game.away_points # None

(* C30: fetch_season_games returns one row for every reported game of      *)
(* weeks start_week..15 whose teams are both FBS teams and whose scores    *)
(* are both present, a score of 0 included, in either payload spelling.    *)
C30_OneRowPerCompleteGame ==
    \A k \in DOMAIN fetch_result :
        LET complete ==
                SelectSeq(FetchReported(fetch_args[1].start_week), FetchComplete)
            rows == fetch_result[k]
        IN  /\ Len(rows) = Len(complete)
            /\ \A i \in DOMAIN rows :
                  /\ rows[i].week = complete[i].week
                  /\ rows[i].home_team = complete[i].home_team[1]
                  /\ rows[i].away_team = complete[i].away_team[1]
                  /\ rows[i].home_score = complete[i].home_points[1]
                  /\ rows[i].away_score = complete[i].away_points[1]

----------------------------------------------------------------------------
(* C23: calculate_sor uses the Normal approximation whenever it is given   *)
(* 20 or more opponent ratings, exactly 20 included, and the Binomial      *)
(* approximation with the mean win probability whenever it is given fewer. *)
C23_NormalFromTwenty ==
    \A i \in DOMAIN sor_result :
        sor_result[i].method # "none" =>
            IF Len(sor_args[1].opponent_ratings) >= 20
            THEN sor_result[i].method = "normal"
            ELSE sor_result[i].method = "binomial"

(* Vocabulary of C21 and C22: the games of an opponent that are not        *)
(* against the team, and the third teams met in them.                      *)
GamesNotAgainst(games_df, opp, team) ==
    SelectSeq(team_games(games_df, opp),
              LAMBDA g : ~head_to_head(g, team, opp))

RecordExcluding(games_df, team, excluded) ==
    LET counted == GamesNotAgainst(games_df, team, excluded)
        wins == Cardinality({i \in DOMAIN counted : WonBy(counted[i], team)})
    IN  <<wins, Len(counted) - wins>>

(* C21: the (wins, losses) record of each opponent O used for the SOS of   *)
(* team T leaves out every game between O and T: the wins are O's wins in  *)
(* its other games and wins + losses is the number of those other games.   *)
C21_RecordExcludesHeadToHead ==
    \A r \in DOMAIN sch_result :
    \A i \in DOMAIN sch_result[r].opponents :
        LET games_df == sch_args[1].games_df
            team == sch_args[1].team
            opp == sch_result[r].opponents[i]
            record == sch_result[r].opp_records[i]
        IN  /\ record = RecordExcluding(games_df, opp, team)
            /\ record[1] + record[2]
                  = Len(GamesNotAgainst(games_df, opp, team))

(* C22: for each opponent O of team T the two-hop list holds one record    *)
(* per game of O against a third team, and that record is the third team's *)
(* own (wins, losses) record: its full record, or its record without its   *)
(* games against O or against T.                                           *)
C22_TwoHopIsThirdTeamsRecord ==
    \A r \in DOMAIN sch_result :
    \A i \in DOMAIN sch_result[r].opponents :
        LET games_df == sch_args[1].games_df
            team == sch_args[1].team
            opp == sch_result[r].opponents[i]
            third_games == GamesNotAgainst(games_df, opp, team)
            records == sch_result[r].opp_opp_records[i]
        IN  /\ Len(records) = Len(third_games)
            /\ \A j \in DOMAIN records :
                  LET third == other_team(third_games[j], opp)
                  IN  records[j] \in {get_team_record(games_df, third),
                                      RecordExcluding(games_df, third, opp),
                                      RecordExcluding(games_df, third, team)}

(* Vocabulary of C24..C26: counts over the game log and sums over the      *)
(* entries of a vector or of a matrix row.                                 *)
GamesPlayed(games, team) == Len(team_games(games, team))

GamesBetween(games, team, opp) ==
    Cardinality({k \in DOMAIN games : head_to_head(games[k], team, opp)})

DecisiveWins(games, team) ==
    Cardinality({k \in DOMAIN games :
                    /\ team \in {games[k].home_team, games[k].away_team}
                    /\ WonBy(games[k], team)})

DecisiveLosses(games, team) ==
    Cardinality({k \in DOMAIN games :
                    /\ team \in {games[k].home_team, games[k].away_team}
                    /\ WonBy(games[k], other_team(games[k], team))})

ClaimedMargin(game) ==
    Clip(100 * (game.home_score - game.away_score)
            - (IF game.neutral_site THEN 0 ELSE 375), -2800, 2800)

MarginFor(game, team) ==
    IF game.home_team = team THEN ClaimedMargin(game)
    ELSE IF game.away_team = team THEN -ClaimedMargin(game)
    ELSE 0

RowProperties(C) ==
    /\ \A i, j \in DOMAIN C : C[i][j] = C[j][i]
    /\ \A i \in DOMAIN C :
          /\ SeqSum(C[i]) = 2
          /\ C[i][i] - SeqSum([j \in DOMAIN C |->
                                  IF j = i THEN 0 ELSE Abs(C[i][j])]) = 2

(* C24: the margin a game contributes to the Massey right-hand side is     *)
(* clip((home_score - away_score) - h, -28, 28), h = 3.75 unless the game  *)
(* is at a neutral site; it is added for the home team and subtracted for  *)
(* the away team, so each contribution lies in [-28, 28] and the entries   *)
(* of p sum to zero.                                                       *)
C24_MasseyMargins ==
    \A r \in DOMAIN sys_massey :
        LET teams == sys_teams(sys_games)
            p == sys_massey[r].p
        IN  /\ \A i \in DOMAIN teams :
                  p[i] = SeqSum([k \in DOMAIN sys_games |->
                                    MarginFor(sys_games[k], teams[i])])
            /\ \A k \in DOMAIN sys_games :
                  /\ adj_margin(sys_games[k]) = ClaimedMargin(sys_games[k])
                  /\ adj_margin(sys_games[k]) \in (-2800)..2800
            /\ SeqSum(p) = 0

C24_Witness ==
    /\ sys_massey # <<>>
    /\ \E k \in DOMAIN sys_games :
          /\ ~sys_games[k].neutral_site
          /\ sys_games[k].home_score - sys_games[k].away_score = 35
          /\ adj_margin(sys_games[k]) = 2800
    /\ \E k \in DOMAIN sys_games :
          /\ sys_games[k].neutral_site
          /\ adj_margin(sys_games[k]) = 1000
    /\ \E i \in DOMAIN sys_massey[1].p : sys_massey[1].p[i] # 0

(* C25: after the Colley build_system, C[i][i] is the number of games of   *)
(* team i plus 2, C[i][j] is minus the number of games between i and j,    *)
(* and b[i] = 1 + 0.5 * (wins - losses) where every game of i is one win   *)
(* or one loss of i, so the entries of b sum to the number of teams (b is  *)
(* counted in halves).                                                     *)
C25_ColleySystem ==
    \A r \in DOMAIN sys_colley :
        LET teams == sys_teams(sys_games)
            C == sys_colley[r].C
            b == sys_colley[r].b
        IN  /\ \A i \in DOMAIN teams :
                  /\ C[i][i] = GamesPlayed(sys_games, teams[i]) + 2
                  /\ \A j \in DOMAIN teams \ {i} :
                        C[i][j] = -GamesBetween(sys_games, teams[i], teams[j])
                  /\ \E wins, losses \in 0..GamesPlayed(sys_games, teams[i]) :
                        /\ wins + losses = GamesPlayed(sys_games, teams[i])
                        /\ wins >= DecisiveWins(sys_games, teams[i])
                        /\ losses >= DecisiveLosses(sys_games, teams[i])
                        /\ b[i] = 2 + (wins - losses)
            /\ SeqSum(b) = 2 * Len(teams)

C25_Witness ==
    /\ sys_colley # <<>>
    /\ Len(sys_games) = 2
    /\ GamesBetween(sys_games, "A", "B") = 2
    /\ \E k \in DOMAIN sys_games :
          sys_games[k].home_score = sys_games[k].away_score
    /\ \E i \in DOMAIN sys_colley[1].b : sys_colley[1].b[i] # 2

(* C26: for a game log between distinct teams the Colley and the Massey    *)
(* matrix are symmetric, every row sums to 2 and its diagonal entry        *)
(* exceeds the absolute off-diagonal entries by 2, and solve() does not    *)
(* take its singular-system branch.                                        *)
C26_DiagonallyDominant ==
    /\ \A r \in DOMAIN sys_colley :
          RowProperties(sys_colley[r].C) /\ sys_colley[r].solved
    /\ \A r \in DOMAIN sys_massey :
          RowProperties(sys_massey[r].C) /\ sys_massey[r].solved

C26_Witness ==
    /\ sys_colley # <<>>
    /\ sys_massey # <<>>
    /\ Len(sys_teams(sys_games)) = 3
    /\ sys_colley[1].solved
    /\ sys_massey[1].solved
    /\ \E i, j \in DOMAIN sys_massey[1].C : sys_massey[1].C[i][j] < 0

====
